---- MODULE Spec2Model ----
(***************************************************************************)
(* A model of sealeye's runSubcommand: option discovery and defaulting,    *)
(* the left-to-right argument scan with subcommand recursion, the help and *)
(* all-help exits and the call of the command's Func.                      *)
(*                                                                         *)
(* Tokens, tags, aliases and environment values are strings, handled with  *)
(* Len, SubSeq and \o the way the Go code handles them byte by byte.       *)
(***************************************************************************)
EXTENDS Integers, Sequences, FiniteSets, TLC

\* The longest top-level argument vector.
MaxArgs == 3

(***************************************************************************)
(* strings and strconv                                                     *)
(***************************************************************************)
HasPrefix(s, prefix) ==
    Len(s) >= Len(prefix) /\ SubSeq(s, 1, Len(prefix)) = prefix

\* s[k] of Go, k counted from 0; "" past the end.
ByteAt(s, k) == IF k < Len(s) THEN SubSeq(s, k + 1, k + 1) ELSE ""

\* s[n:] of Go.
SliceFrom(s, n) == SubSeq(s, n + 1, Len(s))

\* strings.Split(s, ","), accumulated left to right.
RECURSIVE SplitAcc(_, _, _, _)
SplitAcc(s, k, cur, acc) ==
    IF k >= Len(s) THEN Append(acc, cur)
    ELSE IF ByteAt(s, k) = "," THEN SplitAcc(s, k + 1, "", Append(acc, cur))
    ELSE SplitAcc(s, k + 1, cur \o ByteAt(s, k), acc)

Split(s) == SplitAcc(s, 0, "", <<>>)

Digits == {"0", "1", "2", "3", "4", "5", "6", "7", "8", "9"}

DigitVal(c) ==
    CASE c = "0" -> 0 [] c = "1" -> 1 [] c = "2" -> 2 [] c = "3" -> 3
      [] c = "4" -> 4 [] c = "5" -> 5 [] c = "6" -> 6 [] c = "7" -> 7
      [] c = "8" -> 8 [] c = "9" -> 9

RECURSIVE DecVal(_, _, _)
DecVal(s, k, acc) ==
    IF k >= Len(s) THEN acc
    ELSE DecVal(s, k + 1, acc * 10 + DigitVal(ByteAt(s, k)))

\* strconv.ParseInt(s, 10, 64): an optional sign, then one or more decimal
\* digits.  The tokens of the model are far shorter than 19 digits, so the
\* range error of ParseInt cannot arise.
ParseInt(s) ==
    LET signed == Len(s) > 0 /\ ByteAt(s, 0) \in {"+", "-"}
        body   == IF signed THEN SliceFrom(s, 1) ELSE s
        ok     == Len(body) > 0
                  /\ \A k \in 0..(Len(body) - 1) : ByteAt(body, k) \in Digits
    IN  IF ok
        THEN [ok |-> TRUE,
              v  |-> IF signed /\ ByteAt(s, 0) = "-"
                     THEN 0 - DecVal(body, 0, 0) ELSE DecVal(body, 0, 0)]
        ELSE [ok |-> FALSE, v |-> 0]

\* strconv.ParseBool.
ParseBool(s) ==
    IF s \in {"1", "t", "T", "TRUE", "true", "True"} THEN [ok |-> TRUE, v |-> TRUE]
    ELSE IF s \in {"0", "f", "F", "FALSE", "false", "False"}
         THEN [ok |-> TRUE, v |-> FALSE]
    ELSE [ok |-> FALSE, v |-> FALSE]

\* ast.IsExported: the name begins with an upper-case letter.
UpperCase == {"A", "B", "C", "D", "E", "F", "G", "H", "I", "J", "K", "L", "M",
              "N", "O", "P", "Q", "R", "S", "T", "U", "V", "W", "X", "Y", "Z"}

IsExported(fieldName) == ByteAt(fieldName, 0) \in UpperCase

\* A Go map read: the zero value "" for a missing key.
MapGet(m, k) == IF k \in DOMAIN m THEN m[k] ELSE ""

MapPut(m, k, v) == [x \in (DOMAIN m) \cup {k} |-> IF x = k THEN v ELSE m[x]]

EmptyMap == [x \in {} |-> ""]

(***************************************************************************)
(* The command schemas: the example program's command tree.  A field is    *)
(* its name, its reflect.Kind, its struct tags and, for an embedded        *)
(* struct, the fields of that struct.                                      *)
(***************************************************************************)
Field(fieldName, kind) ==
    [Name |-> fieldName, Kind |-> kind, option |-> "", default |-> "",
     required |-> "", hidden |-> "", Sub |-> <<>>]

Option(fieldName, kind, optionTag, defaultTag, requiredTag, hiddenTag) ==
    [Name |-> fieldName, Kind |-> kind, option |-> optionTag,
     default |-> defaultTag, required |-> requiredTag, hidden |-> hiddenTag,
     Sub |-> <<>>]

Embedded(fieldName, fields) ==
    [Name |-> fieldName, Kind |-> "struct", option |-> "", default |-> "",
     required |-> "", hidden |-> "", Sub |-> fields]

commonOptions ==
    << Option("CommonOne", "string", "one", "", "", ""),
       Option("CommonTwo", "bool", "two", "", "", "") >>

sprinkleOptions ==
    << Option("SprinkleType", "int", "sprinkle-type", "", "", ""),
       Option("SprinkleCount", "int", "sprinkle-count", "10", "", "") >>

rootCLI ==
    << Field("Help", "string"),
       Field("Func", "func"),
       Field("Args", "slice"),
       Option("HelpOption", "bool", "?,h,help", "", "", ""),
       Option("Color", "bool", "color", "terminal", "", ""),
       Option("Version", "bool", "V,version", "", "", ""),
       Option("Debug", "bool", "v,debug", "env:DEBUG", "", ""),
       Field("Subcommands", "map") >>

\* catCLI with the fields of both of its declarations: Filenames is the bool
\* of sealeye-example/cat.go, HeaderFile and Secret are those of the later
\* declaration.
catCLI ==
    << Embedded("commonOptions", commonOptions),
       Embedded("sprinkleOptions", sprinkleOptions),
       Field("Help", "string"),
       Field("QuickHelp", "string"),
       Field("Func", "func"),
       Field("Args", "slice"),
       Option("HelpOption", "bool", "?,h,help", "", "", ""),
       Option("Filenames", "bool", "f,filenames", "", "", ""),
       Option("Prefix", "string", "p,prefix", "## ", "", ""),
       Option("Count", "int", "c,count", "env:COUNT,1", "", ""),
       Option("SprinkleType", "int", "sprinkle-type", "1", "", ""),
       Option("HeaderFile", "string", "header-file", "env:GLH", "file", ""),
       Option("Secret", "bool", "secret", "", "", "true"),
       Field("Parent", "ptr") >>

versionCLI ==
    << Embedded("commonOptions", commonOptions),
       Embedded("sprinkleOptions", sprinkleOptions),
       Field("Help", "string"),
       Field("QuickHelp", "string"),
       Field("Func", "func"),
       Field("Args", "slice"),
       Option("HelpOption", "bool", "?,h,help", "", "", ""),
       Option("AllHelpOption", "bool", "all-help", "", "", ""),
       Field("Subcommands", "map"),
       Field("HiddenSubcommands", "map") >>

versionOnlyCLI ==
    << Embedded("commonOptions", commonOptions),
       Field("Help", "string"),
       Field("QuickHelp", "string"),
       Field("Func", "func"),
       Field("Args", "slice"),
       Option("HelpOption", "bool", "?,h,help", "", "", "") >>

\* A command with a string option that must name a file and whose default is
\* $GLH, else the literal f, and an int option whose default lists the
\* literal 1 before $COUNT.
headerCLI ==
    << Field("Help", "string"),
       Field("Func", "func"),
       Field("Args", "slice"),
       Option("HelpOption", "bool", "?,h,help", "", "", ""),
       Option("HeaderFile", "string", "header-file", "env:GLH,f", "file", ""),
       Option("Level", "int", "level", "1,env:COUNT", "", "") >>

versionHiddenCLI ==
    << Embedded("commonOptions", commonOptions),
       Field("Help", "string"),
       Field("QuickHelp", "string"),
       Field("Func", "func"),
       Field("Args", "slice"),
       Option("HelpOption", "bool", "?,h,help", "", "", "") >>

\* The command of the test: its one option is stored in a *int.
testIntPtrOptionBugCLI ==
    << Option("Int", "ptr", "int", "", "", ""),
       Field("Func", "func"),
       Field("Args", "slice") >>

\* A command of two option fields that both declare the alias n.
clashCLI ==
    << Field("Help", "string"),
       Field("Func", "func"),
       Field("Args", "slice"),
       Option("First", "bool", "n,first", "", "", ""),
       Option("Second", "int", "n,second", "", "", "") >>

\* A command above the example's commands: it has the all-help option, a
\* terminal default of its own, and root and version as its subcommands.
suiteCLI ==
    << Field("Help", "string"),
       Field("Func", "func"),
       Field("Args", "slice"),
       Option("HelpOption", "bool", "?,h,help", "", "", ""),
       Option("AllHelpOption", "bool", "all-help", "", "", ""),
       Option("Color", "bool", "color", "terminal", "", ""),
       Field("Subcommands", "map") >>

\* A command that declares SprinkleType itself, as catCLI does, with other
\* aliases and another default than the embedded group's field of that name.
shadowOptions ==
    << Option("SprinkleType", "int", "t,sprinkle-type", "7", "", ""),
       Option("SprinkleCount", "int", "sprinkle-count", "10", "", "") >>

shadowCLI ==
    << Embedded("shadowOptions", shadowOptions),
       Field("Help", "string"),
       Field("Func", "func"),
       Field("Args", "slice"),
       Option("HelpOption", "bool", "?,h,help", "", "", ""),
       Option("SprinkleType", "int", "kind", "", "", "") >>

\* A command with an option whose one alias is a digit.
digitCLI ==
    << Field("Help", "string"),
       Field("Func", "func"),
       Field("Args", "slice"),
       Option("HelpOption", "bool", "?,h,help", "", "", ""),
       Option("Nine", "bool", "9", "", "", "") >>

\* A command whose Help is no template: its action is not closed.
brokenCLI ==
    << Field("Help", "string"),
       Field("Func", "func"),
       Field("Args", "slice"),
       Option("HelpOption", "bool", "?,h,help", "", "", "") >>

\* A command with the all-help option above the command of the *int option
\* and the command whose Help is no template.
wrapCLI ==
    << Field("Help", "string"),
       Field("Func", "func"),
       Field("Args", "slice"),
       Option("HelpOption", "bool", "?,h,help", "", "", ""),
       Option("AllHelpOption", "bool", "all-help", "", "", ""),
       Field("Subcommands", "map") >>

\* A command with a string option of each requirement and of none, none of
\* them with a default but the one of dirorfile.
pathsCLI ==
    << Field("Help", "string"),
       Field("Func", "func"),
       Field("Args", "slice"),
       Option("HelpOption", "bool", "?,h,help", "", "", ""),
       Option("HeaderFile", "string", "header-file", "", "file", ""),
       Option("OutDir", "string", "out-dir", "", "dir", ""),
       Option("Target", "string", "target", "env:GLH", "dirorfile", ""),
       Option("Name", "string", "name", "", "", "") >>

Nodes == {"root", "cat", "version", "only", "header", "hidden", "intptr",
          "clash", "suite", "shadow", "digit", "broken", "wrap",
          "paths"}

TypeOf(cli) ==
    CASE cli = "root" -> rootCLI
      [] cli = "cat" -> catCLI
      [] cli = "version" -> versionCLI
      [] cli = "only" -> versionOnlyCLI
      [] cli = "header" -> headerCLI
      [] cli = "hidden" -> versionHiddenCLI
      [] cli = "intptr" -> testIntPtrOptionBugCLI
      [] cli = "clash" -> clashCLI
      [] cli = "suite" -> suiteCLI
      [] cli = "shadow" -> shadowCLI
      [] cli = "digit" -> digitCLI
      [] cli = "broken" -> brokenCLI
      [] cli = "wrap" -> wrapCLI
      [] cli = "paths" -> pathsCLI

\* The Subcommands field of each command, as the init functions fill it.
SubcommandsField(cli) ==
    CASE cli = "root" -> [n \in {"cat", "version"} |-> n]
      [] cli = "version" -> [n \in {"only"} |-> n]
      [] cli = "suite" -> [n \in {"root", "version"} |-> n]
      [] cli = "wrap" -> [n \in {"intptr", "template"} |->
                             IF n = "template" THEN "broken" ELSE n]
      [] OTHER -> EmptyMap

\* The Help field of each command: the text of a template.
HelpField(cli) ==
    IF cli = "broken" THEN "Usage: {{.Command" ELSE "Usage: {{.Command}}"

\* template.Parse succeeds: every action opened with {{ is closed with }}.
RECURSIVE templateParses(_, _)
templateParses(text, inAction) ==
    IF text = "" THEN ~inAction
    ELSE IF ~inAction /\ HasPrefix(text, "{{")
    THEN templateParses(SliceFrom(text, 2), TRUE)
    ELSE IF inAction /\ HasPrefix(text, "}}")
    THEN templateParses(SliceFrom(text, 2), FALSE)
    ELSE templateParses(Tail(text), inAction)

\* The HiddenSubcommands field of each command, as the init functions fill
\* it.
HiddenSubcommandsField(cli) ==
    CASE cli = "version" -> [n \in {"hidden"} |-> n]
      [] OTHER -> EmptyMap

\* reflectValue.FieldByName(fieldName).Kind() != reflect.Invalid.
RECURSIVE HasField(_, _)
HasField(fields, fieldName) ==
    \E k \in 1..Len(fields) :
        \/ fields[k].Name = fieldName
        \/ fields[k].Kind = "struct" /\ HasField(fields[k].Sub, fieldName)

\* Every field carrying an option tag, embedded structs included.
RECURSIVE OptionFields(_)
OptionFields(fields) ==
    UNION { IF fields[k].Kind = "struct" THEN OptionFields(fields[k].Sub)
            ELSE IF fields[k].option # "" THEN {fields[k]} ELSE {}
            : k \in 1..Len(fields) }

\* The zero value of a field's storage.
Zero(kind) ==
    CASE kind = "bool" -> [kind |-> "bool", b |-> FALSE, n |-> 0, s |-> ""]
      [] kind = "int" -> [kind |-> "int", b |-> FALSE, n |-> 0, s |-> ""]
      [] kind = "ptr" -> [kind |-> "ptr", b |-> FALSE, n |-> 0, s |-> ""]
      [] OTHER -> [kind |-> "string", b |-> FALSE, n |-> 0, s |-> ""]

BoolValue(b) == [kind |-> "bool", b |-> b, n |-> 0, s |-> ""]
IntValue(n) == [kind |-> "int", b |-> FALSE, n |-> n, s |-> ""]
StringValue(s) == [kind |-> "string", b |-> FALSE, n |-> 0, s |-> s]

\* The kind of the field FieldByName finds: the command's own field before
\* a promoted field of an embedded struct.
FieldKind(cli, fieldName) ==
    LET own == {k \in 1..Len(TypeOf(cli)) : TypeOf(cli)[k].Name = fieldName}
    IN  IF own # {} THEN TypeOf(cli)[CHOOSE k \in own : TRUE].Kind
        ELSE (CHOOSE f \in OptionFields(TypeOf(cli)) : f.Name = fieldName).Kind

\* The option fields of a command value as constructed: all zero.
ZeroFields(cli) ==
    [fieldName \in {f.Name : f \in OptionFields(TypeOf(cli))} |->
        Zero(FieldKind(cli, fieldName))]

(***************************************************************************)
(* State                                                                   *)
(***************************************************************************)
VARIABLES
    env,          \* the process environment: name -> [set, val]
    fs,           \* the filesystem os.Stat sees: path -> "file" or "dir"
    terminal,     \* what isatty.IsTerminal(stdout.Fd()) answers
    levels,       \* every call of runSubcommand so far, in call order
    stack,        \* the calls in progress: indices into levels, innermost last
    vals,         \* the option fields of each command value
    argsField,    \* the Args field of each command value
    parentField,  \* the Parent field of each command value
    stdout,       \* what was written to standard output
    stderr,       \* what was written to standard error
    calls,        \* the calls of a command's Func
    probes,       \* calls of isatty.IsTerminal made by default resolution
    result        \* state "running", "exited" or "panic", and the exit code

vars == <<env, fs, terminal, levels, stack, vals, argsField, parentField,
          stdout, stderr, calls, probes, result>>

\* os.LookupEnv.
LookupEnv(envName) ==
    IF envName \in DOMAIN env THEN env[envName] ELSE [set |-> FALSE, val |-> ""]

\* os.Stat, as far as reqCheck reads it.
Stat(path) == IF path \in DOMAIN fs THEN fs[path] ELSE "absent"

ReqsOf(optionReqs, optionName) ==
    IF optionName \in DOMAIN optionReqs THEN optionReqs[optionName] ELSE {}

\* A faulty reqCheck: dirorfile is content with nothing but a directory.
reqCheckDirOnly(optionReqs, optionName, value) ==
    IF ReqsOf(optionReqs, optionName) \cap {"dir", "dirorfile"} # {}
       /\ Stat(value) # "dir"
    THEN "is not a directory"
    ELSE IF "file" \in ReqsOf(optionReqs, optionName) /\ Stat(value) # "file"
    THEN "is not a file"
    ELSE ""

\* reqCheck: "" for nil, else the error's text after the option and value.
reqCheck(optionReqs, optionName, value) ==
    IF "dir" \in ReqsOf(optionReqs, optionName) /\ Stat(value) # "dir"
    THEN "is not a directory"
    ELSE IF "dirorfile" \in ReqsOf(optionReqs, optionName) /\ Stat(value) = "absent"
    THEN "is not a directory or file"
    ELSE IF "file" \in ReqsOf(optionReqs, optionName) /\ Stat(value) # "file"
    THEN "is not a file"
    ELSE ""

(***************************************************************************)
(* Discovery and defaulting: reflectFunc.  d is what the closure has       *)
(* written so far: the three option maps, the command's fields, tty, the   *)
(* diagnostics, the return code and whether it panicked.                   *)
(***************************************************************************)
Diag(kind, optionName, value, envName) ==
    [kind |-> kind, option |-> optionName, value |-> value, via |-> envName]

SetField(d, fieldName, v) ==
    IF d.fields[fieldName].kind = v.kind
    THEN [d EXCEPT !.fields[fieldName] = v]
    ELSE [d EXCEPT !.panicked = TRUE]      \* reflect: Set of the wrong kind

FailWith(d, diag) == [d EXCEPT !.stderr = Append(@, diag), !.code = 1]

\* A faulty envDefault: a value that does not parse is skipped in silence.
envDefaultLenient(d, fieldName, optionType, optionName, envName, envVal) ==
    CASE optionType = "bool" ->
            IF ParseBool(envVal).ok
            THEN SetField(d, fieldName, BoolValue(ParseBool(envVal).v))
            ELSE d
      [] optionType = "int" ->
            IF ParseInt(envVal).ok
            THEN SetField(d, fieldName, IntValue(ParseInt(envVal).v))
            ELSE d
      [] optionType = "string" ->
            IF reqCheck(d.optionReqs, optionName, envVal) # ""
            THEN FailWith(d, Diag(reqCheck(d.optionReqs, optionName, envVal),
                                  optionName, envVal, ""))
            ELSE SetField(d, fieldName, StringValue(envVal))

\* A faulty envDefault: a string from the environment is stored unchecked.
envDefaultUnchecked(d, fieldName, optionType, optionName, envName, envVal) ==
    CASE optionType = "bool" ->
            IF ParseBool(envVal).ok
            THEN SetField(d, fieldName, BoolValue(ParseBool(envVal).v))
            ELSE FailWith(d, Diag("invalid boolean", optionName, envVal, envName))
      [] optionType = "int" ->
            IF ParseInt(envVal).ok
            THEN SetField(d, fieldName, IntValue(ParseInt(envVal).v))
            ELSE FailWith(d, Diag("invalid integer", optionName, envVal, envName))
      [] optionType = "string" ->
            SetField(d, fieldName, StringValue(envVal))

\* The env: branch once the variable is found set.
envDefault(d, fieldName, optionType, optionName, envName, envVal) ==
    CASE optionType = "bool" ->
            IF ParseBool(envVal).ok
            THEN SetField(d, fieldName, BoolValue(ParseBool(envVal).v))
            ELSE FailWith(d, Diag("invalid boolean", optionName, envVal, envName))
      [] optionType = "int" ->
            IF ParseInt(envVal).ok
            THEN SetField(d, fieldName, IntValue(ParseInt(envVal).v))
            ELSE FailWith(d, Diag("invalid integer", optionName, envVal, envName))
      [] optionType = "string" ->
            IF reqCheck(d.optionReqs, optionName, envVal) # ""
            THEN FailWith(d, Diag(reqCheck(d.optionReqs, optionName, envVal),
                                  optionName, envVal, ""))
            ELSE SetField(d, fieldName, StringValue(envVal))

\* The "terminal" branch: probe once per call of runSubcommand.
terminalDefault(d, fieldName) ==
    LET probed == IF d.tty = 0
                  THEN [d EXCEPT !.tty = IF terminal THEN 1 ELSE -1,
                                 !.probes = @ + 1]
                  ELSE d
    IN  SetField(probed, fieldName, BoolValue(probed.tty = 1))

\* The literal branch.
literalDefault(d, fieldName, optionType, optionName, dflt) ==
    CASE optionType = "bool" ->
            IF ParseBool(dflt).ok
            THEN SetField(d, fieldName, BoolValue(ParseBool(dflt).v))
            ELSE [d EXCEPT !.panicked = TRUE]
      [] optionType = "int" ->
            IF ParseInt(dflt).ok
            THEN SetField(d, fieldName, IntValue(ParseInt(dflt).v))
            ELSE [d EXCEPT !.panicked = TRUE]
      [] optionType = "string" ->
            IF reqCheck(d.optionReqs, optionName, dflt) # ""
            THEN FailWith(d, Diag(reqCheck(d.optionReqs, optionName, dflt),
                                  optionName, dflt, ""))
            ELSE SetField(d, fieldName, StringValue(dflt))

\* A faulty DEFAULTING: no break after a source has yielded a value, so a
\* later source overwrites it.
RECURSIVE DEFAULTINGNoBreak(_, _, _, _, _, _)
DEFAULTINGNoBreak(d, fieldName, optionType, optionName, dflts, idx) ==
    IF idx > Len(dflts) \/ d.code # 0 \/ d.panicked THEN d
    ELSE IF dflts[idx] = ""
    THEN DEFAULTINGNoBreak(d, fieldName, optionType, optionName, dflts, idx + 1)
    ELSE IF HasPrefix(dflts[idx], "env:")
    THEN DEFAULTINGNoBreak(
             IF LookupEnv(SliceFrom(dflts[idx], 4)).set
             THEN envDefault(d, fieldName, optionType, optionName,
                             SliceFrom(dflts[idx], 4),
                             LookupEnv(SliceFrom(dflts[idx], 4)).val)
             ELSE d,
             fieldName, optionType, optionName, dflts, idx + 1)
    ELSE IF dflts[idx] = "terminal"
    THEN DEFAULTINGNoBreak(terminalDefault(d, fieldName),
                           fieldName, optionType, optionName, dflts, idx + 1)
    ELSE DEFAULTINGNoBreak(
             literalDefault(d, fieldName, optionType, optionName, dflts[idx]),
             fieldName, optionType, optionName, dflts, idx + 1)

\* The DEFAULTING loop over the sources of the default tag, from source idx.
RECURSIVE DEFAULTING(_, _, _, _, _, _)
DEFAULTING(d, fieldName, optionType, optionName, dflts, idx) ==
    IF idx > Len(dflts) THEN d
    ELSE IF dflts[idx] = ""
    THEN DEFAULTING(d, fieldName, optionType, optionName, dflts, idx + 1)
    ELSE IF HasPrefix(dflts[idx], "env:")
    THEN IF LookupEnv(SliceFrom(dflts[idx], 4)).set
         THEN envDefault(d, fieldName, optionType, optionName,
                         SliceFrom(dflts[idx], 4),
                         LookupEnv(SliceFrom(dflts[idx], 4)).val)
         ELSE DEFAULTING(d, fieldName, optionType, optionName, dflts, idx + 1)
    ELSE IF dflts[idx] = "terminal"
    THEN terminalDefault(d, fieldName)
    ELSE literalDefault(d, fieldName, optionType, optionName, dflts[idx])

\* "-x" for a one-character alias, "--name" for a longer one.
OptionName(alias) == IF Len(alias) = 1 THEN "-" \o alias ELSE "--" \o alias

RequiredOK(requiredTag) ==
    \A k \in 1..Len(Split(requiredTag)) :
        Split(requiredTag)[k] \in {"", "dir", "dirorfile", "file"}

RequiredSet(requiredTag) ==
    {Split(requiredTag)[k] : k \in 1..Len(Split(requiredTag))} \ {""}

\* The loop over the aliases of one option field, from alias idx.
RECURSIVE registerOption(_, _, _, _)
registerOption(d, reflectField, aliases, idx) ==
    IF idx > Len(aliases) \/ d.code # 0 \/ d.panicked THEN d
    ELSE IF aliases[idx] = "" THEN registerOption(d, reflectField, aliases, idx + 1)
    ELSE LET optionName == OptionName(aliases[idx])
             bound == [d EXCEPT
                        !.optionTypes = MapPut(@, optionName, reflectField.Kind),
                        !.optionValues = MapPut(@, optionName, reflectField.Name),
                        !.optionReqs = MapPut(@, optionName,
                                              RequiredSet(reflectField.required))]
         IN  registerOption(
                 DEFAULTING(bound, reflectField.Name, reflectField.Kind,
                            optionName, Split(reflectField.default), 1),
                 reflectField, aliases, idx + 1)

\* The subcommands map: nil when the field is missing or empty.
subcommandsOf(cli) ==
    IF HasField(TypeOf(cli), "Subcommands") THEN SubcommandsField(cli)
    ELSE EmptyMap

\* strings.Join.
RECURSIVE Join(_, _)
Join(elems, sep) ==
    IF elems = <<>> THEN ""
    ELSE IF Len(elems) = 1 THEN elems[1]
    ELSE elems[1] \o sep \o Join(Tail(elems), sep)

\* defaultsHelp: what the help says of each source of the default tag.
RECURSIVE defaultsHelp(_, _)
defaultsHelp(dflts, idx) ==
    IF idx > Len(dflts) THEN <<>>
    ELSE (IF dflts[idx] = "" THEN <<>>
          ELSE IF HasPrefix(dflts[idx], "env:")
          THEN <<"$" \o SliceFrom(dflts[idx], 4)>>
          ELSE IF dflts[idx] = "terminal" THEN <<"if terminal">>
          ELSE <<dflts[idx]>>) \o defaultsHelp(dflts, idx + 1)

\* reqsHelp: what the help says of each requirement.
RECURSIVE reqsHelp(_, _)
reqsHelp(reqs, idx) ==
    IF idx > Len(reqs) THEN <<>>
    ELSE (CASE reqs[idx] = "dir" -> <<"must be a directory">>
            [] reqs[idx] = "dirorfile" -> <<"must be a directory or file">>
            [] reqs[idx] = "file" -> <<"must be a file">>
            [] OTHER -> <<>>) \o reqsHelp(reqs, idx + 1)

\* optionHelpNames: each alias as the help shows it, " n" after an int
\* option and " s" after a string option.
RECURSIVE optionHelpNames(_, _, _)
optionHelpNames(aliases, optionType, idx) ==
    IF idx > Len(aliases) THEN <<>>
    ELSE (IF aliases[idx] = "" THEN <<>>
          ELSE <<OptionName(aliases[idx]) \o
                 (CASE optionType = "int" -> " n"
                    [] optionType = "string" -> " s"
                    [] OTHER -> "")>>)
         \o optionHelpNames(aliases, optionType, idx + 1)

\* A row of the option table: the names, and the help text, which is the
\* help tag (stood for by the field it is on) with the requirements and the
\* defaults after it.
HelpRow(names, reflectField) ==
    [names |-> names, help |-> reflectField.Name,
     reqs |-> reqsHelp(Split(reflectField.required), 1),
     defaults |-> defaultsHelp(Split(reflectField.default), 1)]

\* The end of reflectFunc's loop body: the option's row goes to
\* optionHelpData or to multilineOptionHelpData.
optionHelp(d, cli, reflectField) ==
    LET names == optionHelpNames(Split(reflectField.option), reflectField.Kind, 1)
    IN  IF d.code # 0 \/ d.panicked THEN d
        ELSE IF Len(names) = 1
        THEN IF names[1] # "--all-help" \/ subcommandsOf(cli) # EmptyMap
             THEN [d EXCEPT !.optionHelpData =
                       Append(@, HelpRow(names[1], reflectField))]
             ELSE d
        ELSE IF reflectField.Kind = "bool" /\ Len(Join(names, " ")) < 15
        THEN [d EXCEPT !.optionHelpData =
                  Append(@, HelpRow(Join(names, " "), reflectField))]
        ELSE [d EXCEPT !.multilineOptionHelpData =
                  Append(@, HelpRow(Join(names, "\n"), reflectField))]

\* topFields left empty: no field of an embedded struct is skipped.
topFieldsNone(cli) == {}

\* The names of the fields the command declares itself.
topFields(cli) == {TypeOf(cli)[k].Name : k \in 1..Len(TypeOf(cli))}

RECURSIVE reflectFunc(_, _, _, _, _)
reflectFunc(d, cli, reflectType, embeddedStruct, idx) ==
    IF idx > Len(reflectType) \/ d.code # 0 \/ d.panicked THEN d
    ELSE LET reflectField == reflectType[idx]
             inner == IF reflectField.Kind = "struct"
                      THEN reflectFunc(d, cli, reflectField.Sub, TRUE, 1)
                      ELSE d
             done ==
                IF inner.code # 0 \/ inner.panicked THEN inner
                ELSE IF embeddedStruct /\ reflectField.Name \in topFields(cli)
                THEN inner
                ELSE IF ~IsExported(reflectField.Name) THEN inner
                ELSE IF reflectField.option = "" THEN inner
                ELSE IF reflectField.Kind \notin {"bool", "int", "string"}
                THEN [inner EXCEPT !.panicked = TRUE]
                ELSE IF ~RequiredOK(reflectField.required)
                THEN [inner EXCEPT !.panicked = TRUE]
                ELSE optionHelp(registerOption(inner, reflectField,
                                               Split(reflectField.option), 1),
                                cli, reflectField)
         IN  reflectFunc(done, cli, reflectType, embeddedStruct, idx + 1)

\* The whole discovery of one call: reflectFunc(reflectValue.Type(), false)
\* over the command's fields as they are when the call starts.
discover(cli, fields) ==
    reflectFunc([optionTypes |-> EmptyMap, optionValues |-> EmptyMap,
                 optionReqs |-> EmptyMap, fields |-> fields, tty |-> 0,
                 probes |-> 0, stderr |-> <<>>, code |-> 0, panicked |-> FALSE,
                 optionHelpData |-> <<>>, multilineOptionHelpData |-> <<>>],
                cli, TypeOf(cli), FALSE, 1)

(***************************************************************************)
(* One call of runSubcommand.  pc is where the call stands:                *)
(*   "discover"    entered, nothing done yet                               *)
(*   "scan"        in the loop over args, about to handle args[i]          *)
(*   "dispatched"  inside addArg's call of runSubcommand for a subcommand  *)
(*   "allhelp"     in the loop over the subcommands of --all-help          *)
(*   "returned"    returned code                                           *)
(* The rest records what the call did: events, what each iteration of the  *)
(* scan loop did; defaults and final, the command's fields after           *)
(* reflectFunc and after the loop; entryArgs, the Args field at entry; via,*)
(* the return statement taken ("discover", "scan", "dispatch", "allhelp",  *)
(* "help" or "func"); helped and called, how often the call ran helpFunc   *)
(* and the command's Func.                                                 *)
(***************************************************************************)
NewLevel(cli, name, args, parent, mode) ==
    [cli |-> cli, name |-> name, args |-> args, parent |-> parent,
     mode |-> mode, pc |-> "discover", i |-> 0, noMore |-> FALSE,
     remainingArgs |-> <<>>, subcommands |-> EmptyMap,
     optionTypes |-> EmptyMap, optionValues |-> EmptyMap,
     optionReqs |-> EmptyMap, tty |-> 0, k |-> 0, code |-> 0,
     optionHelpData |-> <<>>, multilineOptionHelpData |-> <<>>,
     events |-> <<>>, defaults |-> ZeroFields(cli), final |-> ZeroFields(cli),
     entryArgs |-> <<>>, via |-> "", helped |-> 0, called |-> 0]

\* What the scan loop recorded for args[at]: the token, the option name it
\* was resolved to, and what was done.
Event(at, token, arg, what) ==
    [at |-> at, token |-> token, arg |-> arg, what |-> what]

\* A faulty resolveArg: --all-help that is no alias is not taken for --help.
resolveArgNoAllHelp(optionTypes, token) ==
    IF token \in DOMAIN optionTypes
    THEN [arg |-> token, optionType |-> optionTypes[token]]
    ELSE LET arg == IF Len(token) > 1 /\ ByteAt(token, 1) # "-"
                    THEN "-" \o token ELSE token
         IN  [arg |-> arg, optionType |-> MapGet(optionTypes, arg)]

\* A faulty resolveArg: only the exact alias is looked up before --all-help
\* is taken for --help.
resolveArgExact(optionTypes, token) ==
    IF token \in DOMAIN optionTypes
    THEN [arg |-> token, optionType |-> optionTypes[token]]
    ELSE IF token = "--all-help"
    THEN [arg |-> "--help", optionType |-> MapGet(optionTypes, "--help")]
    ELSE [arg |-> token, optionType |-> ""]

\* The option a token beginning with "-" stands for: the exact alias, else
\* the double-dash form of a single-dash token, else --help for --all-help.
resolveArg(optionTypes, token) ==
    IF token \in DOMAIN optionTypes
    THEN [arg |-> token, optionType |-> optionTypes[token]]
    ELSE LET arg == IF Len(token) > 1 /\ ByteAt(token, 1) # "-"
                    THEN "-" \o token ELSE token
         IN  IF arg \in DOMAIN optionTypes
             THEN [arg |-> arg, optionType |-> optionTypes[arg]]
             ELSE IF arg = "--all-help"
             THEN [arg |-> "--help", optionType |-> MapGet(optionTypes, "--help")]
             ELSE [arg |-> arg, optionType |-> ""]

\* What one iteration hands back: the call, the command's fields, a
\* diagnostic if one was printed, and the subcommand call if one was made.
Step(L, fields, diag, call) ==
    [L |-> L, fields |-> fields, diag |-> diag, call |-> call]

Advance(L, by, event) ==
    [L EXCEPT !.i = @ + by, !.events = Append(@, event)]

\* A faulty Abort: the diagnostic is printed but the loop goes on.
AbortContinues(L, event) ==
    [L EXCEPT !.i = @ + 1, !.events = Append(@, event)]

\* The return of 1 after a diagnostic.
Abort(L, event) ==
    [L EXCEPT !.pc = "returned", !.code = 1, !.via = "scan",
              !.events = Append(@, event)]

\* A faulty addArg: the token is put in front of remainingArgs.
addArgInFront(L, fields) ==
    LET arg == L.args[L.i + 1]
    IN  IF arg \in DOMAIN L.subcommands
        THEN Step([L EXCEPT !.pc = "dispatched",
                            !.events = Append(@, Event(L.i, arg, arg, "dispatch"))],
                  fields, <<>>,
                  <<[cli |-> L.subcommands[arg], name |-> L.name \o " " \o arg,
                     args |-> SubSeq(L.args, L.i + 2, Len(L.args))]>>)
        ELSE Step([Advance(L, 1, Event(L.i, arg, arg, "positional"))
                      EXCEPT !.remainingArgs = <<arg>> \o @],
                  fields, <<>>, <<>>)

\* A faulty addArg: the subcommand is handed args[i:], its own name first.
addArgKeepsName(L, fields) ==
    LET arg == L.args[L.i + 1]
    IN  IF arg \in DOMAIN L.subcommands
        THEN Step([L EXCEPT !.pc = "dispatched",
                            !.events = Append(@, Event(L.i, arg, arg, "dispatch"))],
                  fields, <<>>,
                  <<[cli |-> L.subcommands[arg], name |-> L.name \o " " \o arg,
                     args |-> SubSeq(L.args, L.i + 1, Len(L.args))]>>)
        ELSE Step([L EXCEPT !.i = @ + 1,
                            !.events = Append(@, Event(L.i, arg, arg, "positional")),
                            !.remainingArgs = Append(@, arg)],
                  fields, <<>>, <<>>)

\* addArg: run the subcommand the token names, else keep the token.
addArg(L, fields) ==
    LET arg == L.args[L.i + 1]
    IN  IF arg \in DOMAIN L.subcommands
        THEN Step([L EXCEPT !.pc = "dispatched",
                            !.events = Append(@, Event(L.i, arg, arg, "dispatch"))],
                  fields, <<>>,
                  <<[cli |-> L.subcommands[arg], name |-> L.name \o " " \o arg,
                     args |-> SubSeq(L.args, L.i + 2, Len(L.args))]>>)
        ELSE Step([Advance(L, 1, Event(L.i, arg, arg, "positional"))
                      EXCEPT !.remainingArgs = Append(@, arg)],
                  fields, <<>>, <<>>)

\* A faulty noValueGiven: the option is given its zero value and the scan
\* goes on.
noValueZero(L, fields, token, arg) ==
    Step([L EXCEPT !.i = @ + 1,
                   !.events = Append(@, Event(L.i, token, arg, "no value"))],
         [fields EXCEPT ![L.optionValues[arg]] = Zero(L.optionTypes[arg])],
         <<>>, <<>>)

\* "no value given for option": the option's name is the last token.
noValueGiven(L, fields, token, arg) ==
    Step(Abort(L, Event(L.i, token, arg, "no value")), fields,
         <<Diag("no value given for option", arg, "", "")>>, <<>>)

\* A faulty intOption: without the i++, the option's own token is parsed.
intOptionNoSkip(L, fields, token, arg, value) ==
    IF ~ParseInt(token).ok
    THEN Step(Abort(L, Event(L.i, token, arg, "invalid int")), fields,
              <<Diag("invalid int", arg, token, "")>>, <<>>)
    ELSE Step(Advance(L, 1, Event(L.i, token, arg, "int")),
              [fields EXCEPT ![L.optionValues[arg]] = IntValue(ParseInt(token).v)],
              <<>>, <<>>)

\* A faulty intOption: the first value given to the field is kept.
intOptionKeepsFirst(L, fields, token, arg, value) ==
    IF ~ParseInt(value).ok
    THEN Step(Abort(L, Event(L.i, token, arg, "invalid int")), fields,
              <<Diag("invalid int", arg, value, "")>>, <<>>)
    ELSE Step(Advance(L, 2, Event(L.i, token, arg, "int")),
              IF \E k \in 1..Len(L.events) :
                     /\ L.events[k].what = "int"
                     /\ L.optionValues[L.events[k].arg] = L.optionValues[arg]
              THEN fields
              ELSE [fields EXCEPT ![L.optionValues[arg]] = IntValue(ParseInt(value).v)],
              <<>>, <<>>)

\* case "int", a value being there: the next token is parsed and stored.
intOption(L, fields, token, arg, value) ==
    IF ~ParseInt(value).ok
    THEN Step(Abort(L, Event(L.i, token, arg, "invalid int")), fields,
              <<Diag("invalid int", arg, value, "")>>, <<>>)
    ELSE Step(Advance(L, 2, Event(L.i, token, arg, "int")),
              [fields EXCEPT ![L.optionValues[arg]] = IntValue(ParseInt(value).v)],
              <<>>, <<>>)

\* A faulty noValue: --no-<name> sets the option like --<name>.
noValueTrue == BoolValue(TRUE)

\* What --no-<name> stores in the bool option --<name>.
noValue == BoolValue(FALSE)

\* The switch on the option's type, for a token beginning with "-".
scanOption(L, fields) ==
    LET token == L.args[L.i + 1]
        arg == resolveArg(L.optionTypes, token).arg
        optionType == resolveArg(L.optionTypes, token).optionType
        last == Len(L.args) = L.i + 1
        value == L.args[L.i + 2]
        arg2 == "--" \o SliceFrom(arg, 5)
    IN  CASE optionType = "bool" ->
                Step(Advance(L, 1, Event(L.i, token, arg, "bool")),
                     [fields EXCEPT ![L.optionValues[arg]] = BoolValue(TRUE)],
                     <<>>, <<>>)
          [] optionType = "int" ->
                IF last THEN noValueGiven(L, fields, token, arg)
                ELSE intOption(L, fields, token, arg, value)
          [] optionType = "string" ->
                IF last THEN noValueGiven(L, fields, token, arg)
                ELSE IF reqCheck(L.optionReqs, arg, value) # ""
                THEN Step(Abort(L, Event(L.i, token, arg, "requirement")), fields,
                          <<Diag(reqCheck(L.optionReqs, arg, value), arg, value, "")>>,
                          <<>>)
                ELSE Step(Advance(L, 2, Event(L.i, token, arg, "string")),
                          [fields EXCEPT ![L.optionValues[arg]] = StringValue(value)],
                          <<>>, <<>>)
          [] OTHER ->
                IF HasPrefix(arg, "--no-") /\ MapGet(L.optionTypes, arg2) = "bool"
                THEN Step(Advance(L, 1, Event(L.i, token, arg, "no")),
                          [fields EXCEPT ![L.optionValues[arg2]] = noValue],
                          <<>>, <<>>)
                ELSE Step(Abort(L, Event(L.i, token, arg, "unknown option")), fields,
                          <<Diag("unknown option", arg, "", "")>>, <<>>)

\* One iteration of the loop over args, at index i.
scanToken(L, fields) ==
    LET arg == L.args[L.i + 1]
    IN  IF L.noMore THEN addArg(L, fields)
        ELSE IF Len(arg) > 0 /\ ByteAt(arg, 0) = "-" THEN scanOption(L, fields)
        ELSE IF arg = "--"
        THEN Step([Advance(L, 1, Event(L.i, arg, arg, "terminator"))
                      EXCEPT !.noMore = TRUE],
                  fields, <<>>, <<>>)
        ELSE addArg(L, fields)

(***************************************************************************)
(* Inputs                                                                  *)
(***************************************************************************)
\* os.Args[0].
Program == "sealeye-example"

\* What a command's Func may return.
ExitCodes == {0, 1, 2}

\* Argument vectors over a set of tokens, of length lo to hi.
ArgVectors(tokens, lo, hi) == UNION {[1..n -> tokens] : n \in lo..hi}

Unset == [set |-> FALSE, val |-> ""]
SetTo(v) == [set |-> TRUE, val |-> v]

NoEnv == [n \in {"DEBUG", "COUNT", "GLH"} |-> Unset]

\* The files of the run: f is a file, d a directory, nothing else exists.
Files == [path \in {"f", "d"} |-> IF path = "f" THEN "file" ELSE "dir"]

\* The tokens tried on the version command, on the root command and, after
\* the token cat, on the cat command.
VersionTokens == {"only", "f", "9", "--", "--help", "--all-help", "--one",
                  "--sprinkle-count", "--two", "--no-two"}

RootTokens == {"cat", "version", "f", "--", "--help", "--all-help", "--color",
               "--no-color", "-v"}

CatTokens == {"f", "9", "--count", "--header-file", "--help", "--secret"}

\* Tokens of the single-dash form of long names, and the name of the hidden
\* subcommand, tried on the version command.
LegacyTokens == {"hidden", "9", "-one", "-two", "-no-two", "-sprinkle-count",
                 "-all-help", "-bogus"}

IntPtrTokens == {"--int", "1"}

ClashTokens == {"-n", "5", "--first", "--second", "--all-help"}

SuiteTokens == {"root", "version", "only", "--all-help", "--help"}

ShadowTokens == {"-t", "--sprinkle-type", "--kind", "3", "--help"}

DigitTokens == {"-9", "--help", "f", "-"}

WrapTokens == {"intptr", "template", "--all-help", "--help"}

PathsTokens == {"--header-file", "--out-dir", "--target", "--name",
                "f", "d", "9"}

\* Tokens that give an option of cat more than one value: the two aliases
\* of an int and of a string option with values, and those of a bool option
\* with its --no- form.
RepeatValueTokens == {"-c", "--count", "-p", "--prefix", "5", "9"}
RepeatBoolTokens == {"-f", "--filenames", "--no-filenames"}
RepeatLen == 4

HeaderTokens == {"f", "9", "--header-file", "--help"}

\* The filesystems tried: f is a file, a directory, or missing.
FileSystems ==
    {[path \in {"f", "d"} |-> IF path = "f" THEN kind ELSE "dir"]
     : kind \in {"file", "dir", "absent"}}

Environments ==
    {[n \in {"DEBUG", "COUNT", "GLH"} |->
        CASE n = "DEBUG" -> e[1] [] n = "COUNT" -> e[2] [] n = "GLH" -> e[3]]
     : e \in {Unset, SetTo("true"), SetTo("x")}
             \X {Unset, SetTo("5"), SetTo("x")}
             \X {Unset, SetTo("f"), SetTo("9")}}

Start(cli, args) ==
    /\ levels = <<NewLevel(cli, Program, args, 0, "top")>>
    /\ stack = <<1>>
    /\ vals = [n \in Nodes |-> ZeroFields(n)]
    /\ argsField = [n \in Nodes |-> <<>>]
    /\ parentField = [n \in Nodes |-> "nil"]
    /\ stdout = <<>>
    /\ stderr = <<>>
    /\ calls = <<>>
    /\ probes = 0
    /\ result = [state |-> "running", code |-> 0]

\* The version command run at the top, with nothing in the environment.
InitVersion ==
    /\ env = NoEnv
    /\ fs = Files
    /\ terminal = FALSE
    /\ \E args \in ArgVectors(VersionTokens, 0, MaxArgs) : Start("version", args)

\* The root command, with nothing in the environment.
InitRoot ==
    /\ env = NoEnv
    /\ fs = Files
    /\ terminal \in BOOLEAN
    /\ \E args \in ArgVectors(RootTokens, 0, MaxArgs) : Start("root", args)

\* The root command with cat as its first argument, under every environment.
InitCat ==
    /\ env \in Environments
    /\ fs = Files
    /\ terminal = TRUE
    /\ \E args \in ArgVectors(CatTokens, 0, MaxArgs - 1) :
           Start("root", <<"cat">> \o args)

\* The header command run at the top, under every $GLH, $COUNT and
\* filesystem.
InitHeader ==
    /\ env \in {e \in Environments : ~e["DEBUG"].set}
    /\ fs \in FileSystems
    /\ terminal = FALSE
    /\ \E args \in ArgVectors(HeaderTokens, 0, MaxArgs - 1) : Start("header", args)

\* The version command with single-dash long names and the hidden
\* subcommand's name.
InitLegacy ==
    /\ env = NoEnv
    /\ fs = Files
    /\ terminal = FALSE
    /\ \E args \in ArgVectors(LegacyTokens, 0, MaxArgs - 1) : Start("version", args)

\* The command of TestIntPtrOptionBug.
InitIntPtr ==
    /\ env = NoEnv
    /\ fs = Files
    /\ terminal = FALSE
    /\ \E args \in ArgVectors(IntPtrTokens, 0, MaxArgs - 1) : Start("intptr", args)

\* The command with two options of one alias.
InitClash ==
    /\ env = NoEnv
    /\ fs = Files
    /\ terminal = FALSE
    /\ \E args \in ArgVectors(ClashTokens, 0, MaxArgs - 1) : Start("clash", args)

\* The command above root and version, with $DEBUG unset or not a boolean.
InitSuite ==
    /\ env \in {e \in Environments :
                   /\ e["DEBUG"] \in {Unset, SetTo("x")}
                   /\ ~e["COUNT"].set /\ ~e["GLH"].set}
    /\ fs = Files
    /\ terminal \in BOOLEAN
    /\ \E args \in ArgVectors(SuiteTokens, 0, MaxArgs - 1) : Start("suite", args)

\* The command that overrides a field of its embedded group.
InitShadow ==
    /\ env = NoEnv
    /\ fs = Files
    /\ terminal = FALSE
    /\ \E args \in ArgVectors(ShadowTokens, 0, MaxArgs - 1) : Start("shadow", args)

\* The command with the digit option.
InitDigit ==
    /\ env = NoEnv
    /\ fs = Files
    /\ terminal = FALSE
    /\ \E args \in ArgVectors(DigitTokens, 0, MaxArgs - 1) : Start("digit", args)

\* The command above the two commands that cannot be run.
InitWrap ==
    /\ env = NoEnv
    /\ fs = Files
    /\ terminal = FALSE
    /\ \E args \in ArgVectors(WrapTokens, 0, MaxArgs - 1) : Start("wrap", args)

\* The command with the options of paths.
InitPaths ==
    /\ env \in {e \in Environments : ~e["DEBUG"].set /\ ~e["COUNT"].set}
    /\ fs \in FileSystems
    /\ terminal = FALSE
    /\ \E args \in ArgVectors(PathsTokens, 0, MaxArgs - 1) : Start("paths", args)

\* cat with an option given more than once.
InitRepeat ==
    /\ env = NoEnv
    /\ fs = Files
    /\ terminal = FALSE
    /\ \E args \in ArgVectors(RepeatValueTokens, RepeatLen, RepeatLen)
                    \cup ArgVectors(RepeatBoolTokens, 1, RepeatLen - 1) :
           Start("root", <<"cat">> \o args)

Init ==
    \/ InitVersion \/ InitRoot \/ InitCat \/ InitHeader
    \/ InitLegacy \/ InitIntPtr \/ InitClash \/ InitSuite \/ InitShadow
    \/ InitDigit \/ InitWrap \/ InitPaths \/ InitRepeat

(***************************************************************************)
(* Actions                                                                 *)
(***************************************************************************)
Cur == stack[Len(stack)]

Running == result.state = "running" /\ stack # <<>>

\* The bytes that occur in the names of subcommands and options, in byte
\* order.
ByteOrder ==
    "\n -0123456789?ABCDEFGHIJKLMNOPQRSTUVWXYZabcdefghijklmnopqrstuvwxyz"

Ord(c) == CHOOSE n \in 1..Len(ByteOrder) : SubSeq(ByteOrder, n, n) = c

\* a < b, as Go compares strings.
RECURSIVE StringLessFrom(_, _, _)
StringLessFrom(a, b, k) ==
    IF k >= Len(b) THEN FALSE
    ELSE IF k >= Len(a) THEN TRUE
    ELSE IF ByteAt(a, k) # ByteAt(b, k) THEN Ord(ByteAt(a, k)) < Ord(ByteAt(b, k))
    ELSE StringLessFrom(a, b, k + 1)

StringLess(a, b) == StringLessFrom(a, b, 0)

\* A faulty sort: the keys in descending order.
DescendingNames(names) ==
    CHOOSE seq \in [1..Cardinality(names) -> names] :
        \A a, b \in 1..Cardinality(names) : a < b => StringLess(seq[b], seq[a])

\* sort.Strings over the keys of a map.
SortedNames(names) ==
    CHOOSE seq \in [1..Cardinality(names) -> names] :
        \A a, b \in 1..Cardinality(names) : a < b => StringLess(seq[a], seq[b])

\* strings.ToLower.
LowerCase == "abcdefghijklmnopqrstuvwxyz"

RECURSIVE ToLower(_)
ToLower(str) ==
    IF str = "" THEN ""
    ELSE LET c == SubSeq(str, 1, 1)
             up == {n \in 1..26 : SubSeq("ABCDEFGHIJKLMNOPQRSTUVWXYZ", n, n) = c}
         IN  (IF up = {} THEN c
              ELSE SubSeq(LowerCase, CHOOSE n \in up : TRUE, CHOOSE n \in up : TRUE))
             \o ToLower(Tail(str))

\* strings.TrimLeft(str, "-").
RECURSIVE TrimLeft(_)
TrimLeft(str) ==
    IF str # "" /\ SubSeq(str, 1, 1) = "-" THEN TrimLeft(Tail(str)) ELSE str

\* The less function of the one-line rows: the row of -? first, --all-help
\* next, the rest by their lower-case names without the dashes.
optionLess(a, b) ==
    LET si == ToLower(TrimLeft(a.names))
        sj == ToLower(TrimLeft(b.names))
    IN  IF ByteAt(si, 0) = "?" THEN TRUE
        ELSE IF si = "all-help" THEN ByteAt(sj, 0) # "?"
        ELSE IF sj = "all-help" THEN FALSE
        ELSE StringLess(si, sj)

\* The less function of the rows that take a line per name.
multilineLess(a, b) == StringLess(a.names, b.names)

\* sort.Slice on a short slice is an insertion sort: row j moves down while
\* it is less than the row before it.
RECURSIVE moveDown(_, _, _)
moveDown(rows, j, multiline) ==
    IF j > 1 /\ (IF multiline THEN multilineLess(rows[j], rows[j - 1])
                 ELSE optionLess(rows[j], rows[j - 1]))
    THEN moveDown([rows EXCEPT ![j] = rows[j - 1], ![j - 1] = rows[j]],
                  j - 1, multiline)
    ELSE rows

RECURSIVE sortSlice(_, _, _)
sortSlice(rows, i, multiline) ==
    IF i > Len(rows) THEN rows
    ELSE sortSlice(moveDown(rows, i, multiline), i + 1, multiline)

\* The nil row that goes before each row of several lines.
NilRow == [names |-> "", help |-> "", reqs |-> <<>>, defaults |-> <<>>]

RECURSIVE withNilRows(_)
withNilRows(rows) ==
    IF rows = <<>> THEN <<>>
    ELSE <<NilRow, rows[1]>> \o withNilRows(Tail(rows))

\* helpFunc: the help of the call's command goes to standard output: the
\* help text for the name, the option table, and the table of the
\* subcommands in the order of their names.
helpFunc(L) ==
    [kind |-> "help", name |-> L.name, cli |-> L.cli,
     options |-> sortSlice(L.optionHelpData, 2, FALSE)
                 \o withNilRows(sortSlice(L.multilineOptionHelpData, 2, TRUE)),
     subcommands |-> SortedNames(DOMAIN L.subcommands)]

\* A faulty reflectValue: the call of a subcommand writes into the struct of
\* the command that made the call.
reflectValueOfParent(L) ==
    IF L.parent = 0 THEN L.cli ELSE levels[L.parent].cli

\* reflectValue: the struct the call writes its options, its Args and its
\* Parent into, which is the command's own.
reflectValue(L) == L.cli

\* reflect.Value.Set panics when handed the zero Value of a nil parent.
parentSetPanics(L) == HasField(TypeOf(L.cli), "Parent") /\ L.parent = 0

\* From the entry of runSubcommand to the scan loop: the Parent field, the
\* subcommands map, the help template, and reflectFunc over the command's
\* fields.
Discover ==
    /\ Running
    /\ levels[Cur].pc = "discover"
    /\ \E d \in {discover(levels[Cur].cli, vals[levels[Cur].cli])} :
       LET L == levels[Cur]
       IN  IF parentSetPanics(L)
           THEN /\ result' = [state |-> "panic", code |-> 2]
                /\ UNCHANGED <<levels, vals, parentField, stderr, probes>>
           ELSE IF ~templateParses(HelpField(L.cli), FALSE)
           THEN /\ stderr' = Append(stderr,
                       Diag("Could not parse help text", "", HelpField(L.cli), ""))
                /\ result' = [state |-> "panic", code |-> 2]
                /\ UNCHANGED <<levels, vals, parentField, probes>>
           ELSE IF d.panicked
           THEN /\ result' = [state |-> "panic", code |-> 2]
                /\ UNCHANGED <<levels, vals, parentField, stderr, probes>>
           ELSE /\ parentField' =
                       IF HasField(TypeOf(L.cli), "Parent")
                       THEN [parentField EXCEPT ![reflectValue(L)] =
                                                    levels[L.parent].cli]
                       ELSE parentField
                /\ vals' = [vals EXCEPT ![reflectValue(L)] = d.fields]
                /\ stderr' = stderr \o d.stderr
                /\ probes' = probes + d.probes
                /\ levels' = [levels EXCEPT ![Cur] =
                       [L EXCEPT !.pc = IF d.code # 0 THEN "returned" ELSE "scan",
                                 !.code = d.code,
                                 !.via = IF d.code # 0 THEN "discover" ELSE "",
                                 !.subcommands = subcommandsOf(L.cli),
                                 !.optionTypes = d.optionTypes,
                                 !.optionValues = d.optionValues,
                                 !.optionReqs = d.optionReqs,
                                 !.tty = d.tty,
                                 !.optionHelpData = d.optionHelpData,
                                 !.multilineOptionHelpData =
                                     d.multilineOptionHelpData,
                                 !.defaults = d.fields,
                                 !.entryArgs = argsField[L.cli]]]
                /\ UNCHANGED result
    /\ UNCHANGED <<env, fs, terminal, stack, argsField, stdout, calls>>

\* One iteration of the scan loop; a subcommand's call of runSubcommand is
\* pushed on the stack.
Scan ==
    /\ Running
    /\ levels[Cur].pc = "scan"
    /\ levels[Cur].i < Len(levels[Cur].args)
    /\ \E step \in {scanToken(levels[Cur], vals[levels[Cur].cli])} :
       LET L == levels[Cur]
       IN  /\ vals' = [vals EXCEPT ![reflectValue(L)] = step.fields]
           /\ stderr' = stderr \o step.diag
           /\ IF step.call = <<>>
              THEN /\ levels' = [levels EXCEPT ![Cur] = step.L]
                   /\ UNCHANGED stack
              ELSE /\ levels' = Append([levels EXCEPT ![Cur] = step.L],
                                       NewLevel(step.call[1].cli, step.call[1].name,
                                                step.call[1].args, Cur, "dispatch"))
                   /\ stack' = Append(stack, Len(levels) + 1)
    /\ UNCHANGED <<env, fs, terminal, argsField, parentField, stdout, calls,
                   probes, result>>

\* Whether the command has a bool field of that name set true.
BoolFieldSet(cli, fieldName) ==
    /\ fieldName \in DOMAIN vals[cli]
    /\ vals[cli][fieldName].kind = "bool"
    /\ vals[cli][fieldName].b

\* A faulty helpCode: success after showing the help.
helpCodeZero == 1 - 1

\* A faulty showsHelp: the help is shown after any failure of Func.
showsHelpOnFailure(exitCode) == exitCode # 0

\* What a call returns after showing the help the user asked for.
helpCode == 1

\* Whether the help is shown after the command's Func returned exitCode.
showsHelp(exitCode) == exitCode = 1

\* After the loop: Args is set; then all-help, help, or the command's Func.
Finish ==
    /\ Running
    /\ levels[Cur].pc = "scan"
    /\ levels[Cur].i >= Len(levels[Cur].args)
    /\ LET L == [levels[Cur] EXCEPT !.final = vals[levels[Cur].cli]]
       IN  /\ argsField' = [argsField EXCEPT ![reflectValue(L)] = L.remainingArgs]
           /\ IF BoolFieldSet(L.cli, "AllHelpOption")
              THEN /\ stdout' = Append(stdout, helpFunc(L))
                   /\ levels' = [levels EXCEPT ![Cur] =
                          [L EXCEPT !.pc = "allhelp", !.k = 0, !.via = "allhelp",
                                    !.helped = @ + 1]]
                   /\ UNCHANGED calls
              ELSE IF BoolFieldSet(L.cli, "HelpOption")
              THEN /\ stdout' = Append(stdout, helpFunc(L))
                   /\ levels' = [levels EXCEPT ![Cur] =
                          [L EXCEPT !.pc = "returned", !.code = helpCode,
                                    !.via = "help", !.helped = @ + 1]]
                   /\ UNCHANGED calls
              ELSE \E exitCode \in ExitCodes :
                   /\ calls' = Append(calls,
                          [level |-> Cur, cli |-> L.cli, fields |-> vals[L.cli],
                           Args |-> L.remainingArgs, code |-> exitCode])
                   /\ stdout' = IF showsHelp(exitCode)
                                THEN Append(stdout, helpFunc(L)) ELSE stdout
                   /\ levels' = [levels EXCEPT ![Cur] =
                          [L EXCEPT !.pc = "returned", !.code = exitCode,
                                    !.via = "func", !.called = @ + 1,
                                    !.helped = IF showsHelp(exitCode)
                                               THEN @ + 1 ELSE @]]
    /\ UNCHANGED <<env, fs, terminal, stack, vals, parentField, stderr, probes,
                   result>>

\* The loop of --all-help over the subcommands: a separator, then
\* runSubcommand for the subcommand with the one argument --all-help; after
\* the last one the call returns 1.
AllHelp ==
    /\ Running
    /\ levels[Cur].pc = "allhelp"
    /\ LET L == levels[Cur]
           subcommandNames == SortedNames(DOMAIN L.subcommands)
       IN  IF L.k < Len(subcommandNames)
           THEN LET subcommandName == subcommandNames[L.k + 1]
                IN  /\ stdout' = Append(stdout,
                           [kind |-> "separator",
                            name |-> L.name \o " " \o subcommandName,
                            cli |-> L.subcommands[subcommandName],
                            options |-> <<>>, subcommands |-> <<>>])
                    /\ levels' = Append(levels,
                           NewLevel(L.subcommands[subcommandName],
                                    L.name \o " " \o subcommandName,
                                    <<"--all-help">>, Cur, "allhelp"))
                    /\ stack' = Append(stack, Len(levels) + 1)
           ELSE /\ levels' = [levels EXCEPT ![Cur] =
                       [L EXCEPT !.pc = "returned", !.code = 1]]
                /\ UNCHANGED <<stack, stdout>>
    /\ UNCHANGED <<env, fs, terminal, vals, argsField, parentField, stderr,
                   calls, probes, result>>

\* A faulty Return: addArg's caller drops the code of the subcommand and
\* goes on after its loop.
ReturnResumes ==
    /\ Running
    /\ levels[Cur].pc = "returned"
    /\ LET L == levels[Cur]
       IN  IF L.mode = "top"
           THEN /\ result' = [state |-> "exited", code |-> L.code]
                /\ stack' = <<>>
                /\ UNCHANGED levels
           ELSE IF L.mode = "dispatch"
           THEN /\ levels' = [levels EXCEPT ![L.parent] =
                       [@ EXCEPT !.pc = "scan", !.i = Len(levels[L.parent].args)]]
                /\ stack' = SubSeq(stack, 1, Len(stack) - 1)
                /\ UNCHANGED result
           ELSE /\ levels' = [levels EXCEPT ![L.parent] = [@ EXCEPT !.k = @ + 1]]
                /\ stack' = SubSeq(stack, 1, Len(stack) - 1)
                /\ UNCHANGED result
    /\ UNCHANGED <<env, fs, terminal, vals, argsField, parentField, stdout,
                   stderr, calls, probes>>

\* The return of a call to its caller: addArg's caller returns the same
\* code, the --all-help loop drops it and goes on, Run exits with it.
Return ==
    /\ Running
    /\ levels[Cur].pc = "returned"
    /\ LET L == levels[Cur]
       IN  IF L.mode = "top"
           THEN /\ result' = [state |-> "exited", code |-> L.code]
                /\ stack' = <<>>
                /\ UNCHANGED levels
           ELSE IF L.mode = "dispatch"
           THEN /\ levels' = [levels EXCEPT ![L.parent] =
                       [@ EXCEPT !.pc = "returned", !.code = L.code,
                                 !.via = "dispatch"]]
                /\ stack' = SubSeq(stack, 1, Len(stack) - 1)
                /\ UNCHANGED result
           ELSE /\ levels' = [levels EXCEPT ![L.parent] = [@ EXCEPT !.k = @ + 1]]
                /\ stack' = SubSeq(stack, 1, Len(stack) - 1)
                /\ UNCHANGED result
    /\ UNCHANGED <<env, fs, terminal, vals, argsField, parentField, stdout,
                   stderr, calls, probes>>

Next == Discover \/ Scan \/ Finish \/ AllHelp \/ Return

Spec == Init /\ [][Next]_vars

(***************************************************************************)
(* Vocabulary of the properties                                            *)
(***************************************************************************)
LevelIds == 1..Len(levels)

EventIds(L) == 1..Len(L.events)

\* How often the help of the call named name went to standard output.
HelpsShown(name) ==
    Cardinality({k \in 1..Len(stdout) :
                    stdout[k].kind = "help" /\ stdout[k].name = name})

\* The calls of the command's Func made by call n of runSubcommand.
CallsOf(n) == {k \in 1..Len(calls) : calls[k].level = n}

\* The diagnostics and the loop outcomes that are errors of the user's input.
ErrorKinds == {"unknown option", "no value", "invalid int", "requirement"}

ReqKinds == {"is not a directory", "is not a directory or file", "is not a file"}

\* The loop of the call is over and ended neither in an error nor in a
\* subcommand.
ScanCompleted(L) ==
    /\ L.pc \in {"allhelp", "returned"}
    /\ L.via \notin {"discover", "scan", "dispatch"}

\* The call got past reflectFunc without a diagnostic.
Discovered(L) == L.pc # "discover" /\ L.via # "discover"

NoErrorEvent(L) == \A k \in EventIds(L) : L.events[k].what \notin ErrorKinds

FlagSet(fields, fieldName) ==
    fieldName \in DOMAIN fields /\ fields[fieldName].b

\* The field an event of the loop assigned, "" if none.
Assigned(L, e) ==
    CASE e.what \in {"bool", "int", "string"} -> L.optionValues[e.arg]
      [] e.what = "no" -> L.optionValues["--" \o SliceFrom(e.arg, 5)]
      [] OTHER -> ""

\* No token of the loop assigned the field.
Untouched(L, fieldName) ==
    \A k \in EventIds(L) : Assigned(L, L.events[k]) # fieldName

\* The option fields of each command with their tags taken apart: the
\* sources of the default tag, which of them are environment variables and
\* which literals, the requirements, and the first alias as the diagnostics
\* name it.
Declared ==
    [cli \in Nodes |->
        {[Name |-> f.Name, Kind |-> f.Kind,
          sources |-> Split(f.default),
          envs |-> {k \in 1..Len(Split(f.default)) :
                       HasPrefix(Split(f.default)[k], "env:")},
          lits |-> {k \in 1..Len(Split(f.default)) :
                       /\ Split(f.default)[k] \notin {"", "terminal"}
                       /\ ~HasPrefix(Split(f.default)[k], "env:")},
          reqs |-> {Split(f.required)[k] : k \in 1..Len(Split(f.required))} \ {""},
          alias |-> OptionName(Split(f.option)[1])]
         : f \in OptionFields(TypeOf(cli))}]

Sources(f) == f.sources

EnvSources(f) == f.envs

LiteralSources(f) == f.lits

\* The first source of the tag that yields a value, 0 if none does: an
\* environment variable that is set, the terminal probe, or a literal.
Yielding(f) ==
    {k \in 1..Len(Sources(f)) :
        \/ k \in LiteralSources(f)
        \/ Sources(f)[k] = "terminal"
        \/ k \in EnvSources(f) /\ LookupEnv(SliceFrom(Sources(f)[k], 4)).set}

FirstYielding(f) ==
    IF Yielding(f) = {} THEN 0
    ELSE CHOOSE k \in Yielding(f) : \A j \in Yielding(f) : k <= j

\* A text as a value of the kind, and whether it is one.
Parses(kind, text) ==
    CASE kind = "bool" -> ParseBool(text).ok
      [] kind = "int" -> ParseInt(text).ok
      [] OTHER -> TRUE

Parsed(kind, text) ==
    CASE kind = "bool" -> BoolValue(ParseBool(text).v)
      [] kind = "int" -> IntValue(ParseInt(text).v)
      [] OTHER -> StringValue(text)

\* The option fields of the command whose default comes from an environment
\* variable that is set and is not a value of the option's type.
BadEnv(cli) ==
    {f \in Declared[cli] :
        /\ FirstYielding(f) \in EnvSources(f)
        /\ ~Parses(f.Kind, LookupEnv(SliceFrom(Sources(f)[FirstYielding(f)], 4)).val)}

FirstAlias(f) == f.alias

\* The value does not meet the requirements.
Violates(reqs, value) ==
    \/ "dir" \in reqs /\ "dirorfile" \notin reqs /\ "file" \notin reqs
       /\ Stat(value) # "dir"
    \/ "dirorfile" \in reqs /\ "dir" \notin reqs /\ "file" \notin reqs
       /\ Stat(value) \notin {"dir", "file"}
    \/ "file" \in reqs /\ "dir" \notin reqs /\ "dirorfile" \notin reqs
       /\ Stat(value) # "file"

(***************************************************************************)
(* C1                                                                      *)
(***************************************************************************)
C1State ==
    \A n \in LevelIds :
        LET L == levels[n]
        IN  /\ \A k \in EventIds(L) :
                   /\ L.events[k].what = "positional"
                         => L.events[k].token \notin DOMAIN L.subcommands
                   /\ L.events[k].what = "dispatch"
                         => /\ k = Len(L.events)
                            /\ L.pc \in {"dispatched", "returned"}
                            /\ \E m \in LevelIds :
                                   levels[m].mode = "dispatch" /\ levels[m].parent = n
            /\ L.mode = "dispatch" =>
                   LET P == levels[L.parent]
                       e == P.events[Len(P.events)]
                   IN  /\ P.pc \in {"dispatched", "returned"}
                       /\ e.what = "dispatch"
                       /\ e.at = P.i
                       /\ e.token = P.args[P.i + 1]
                       /\ e.token \in DOMAIN SubcommandsField(P.cli)
                       /\ L.cli = SubcommandsField(P.cli)[e.token]
                       /\ L.args = SubSeq(P.args, P.i + 2, Len(P.args))
                       /\ (L.pc # "discover" /\ HasField(TypeOf(L.cli), "Parent"))
                             => parentField[L.cli] = P.cli
                       /\ P.pc = "returned"
                             => /\ L.pc = "returned"
                                /\ P.code = L.code
                                /\ P.called = 0
                                /\ HelpsShown(P.name) = 0
                       /\ P.remainingArgs =
                             [k \in 1..Len(P.remainingArgs) |->
                                 P.events[CHOOSE j \in EventIds(P) :
                                     /\ P.events[j].what = "positional"
                                     /\ Cardinality({q \in 1..j :
                                            P.events[q].what = "positional"}) = k].token]
                       /\ Len(P.remainingArgs) =
                             Cardinality({j \in EventIds(P) :
                                             P.events[j].what = "positional"})
                       /\ argsField[P.cli] = P.entryArgs

C1Frozen ==
    \A n \in LevelIds :
        (levels[n].pc = "dispatched" \/
         (levels[n].pc = "returned" /\ levels[n].via = "dispatch"))
            => /\ vals'[levels[n].cli] = vals[levels[n].cli]
               /\ argsField'[levels[n].cli] = argsField[levels[n].cli]
               /\ levels'[n].remainingArgs = levels[n].remainingArgs
               /\ levels'[n].events = levels[n].events
               /\ levels'[n].i = levels[n].i

\* C1: a plain token equal to a registered subcommand name runs that
\* subcommand with exactly the tokens after it and the current command as
\* its parent; the subcommand's result is the current call's result, and
\* from then on the current call appends nothing to its positional
\* arguments, resolves no option and changes no field.
C1_DispatchExclusive == []C1State /\ [][C1Frozen]_vars

\* A subcommand reached after a positional argument, with arguments of its
\* own, has run its Func and handed its code to the caller.
C1_Witness ==
    \E n \in LevelIds :
        /\ levels[n].mode = "dispatch"
        /\ levels[n].pc = "returned"
        /\ levels[n].called = 1
        /\ Len(levels[n].args) > 0
        /\ levels[levels[n].parent].i > 0
        /\ levels[levels[n].parent].remainingArgs # <<>>
        /\ levels[levels[n].parent].pc = "returned"
        /\ levels[levels[n].parent].code = 2

(***************************************************************************)
(* C2                                                                      *)
(***************************************************************************)
\* C2: a token that is exactly "--" sets the terminator flag, without
\* failing the call and without being kept as a positional argument, and
\* every token after it is a subcommand candidate or a positional argument.
C2_Terminator ==
    \A n \in LevelIds :
        LET L == levels[n]
            AfterTerminator(k) ==
                \E j \in 1..(k - 1) : L.events[j].what = "terminator"
        IN  \A k \in EventIds(L) :
                /\ (L.events[k].token = "--" /\ ~AfterTerminator(k))
                      => /\ L.events[k].what = "terminator"
                         /\ L.noMore
                /\ AfterTerminator(k)
                      => L.events[k].what \in {"positional", "dispatch"}

(***************************************************************************)
(* C3                                                                      *)
(***************************************************************************)
\* The command's Func ran once, on the fields and the Args the loop left,
\* and its code is the call's: the help iff the code is 1.
HandlerRan(n) ==
    LET L == levels[n]
    IN  /\ Cardinality(CallsOf(n)) = 1
        /\ L.called = 1
        /\ \A k \in CallsOf(n) :
               /\ calls[k].cli = L.cli
               /\ calls[k].fields = vals[L.cli]
               /\ calls[k].fields = L.final
               /\ calls[k].Args = L.remainingArgs
               /\ L.pc = "returned" /\ L.code = calls[k].code
               /\ HelpsShown(L.name) = (IF calls[k].code = 1 THEN 1 ELSE 0)
               /\ (L.mode = "top" /\ result.state = "exited")
                     => result.code = calls[k].code

\* C3 as stated: a loop that ends with no error, no subcommand and the help
\* option unset runs the command's Func.
C3_Original ==
    \A n \in LevelIds :
        (ScanCompleted(levels[n]) /\ ~FlagSet(levels[n].final, "HelpOption"))
            => HandlerRan(n)

\* C3: a loop that ends with no error, no subcommand, the help option unset
\* and the all-help option unset runs the command's Func once with the
\* populated fields; the call returns Func's code, shows the help iff that
\* code is 1, and hands on any other code unchanged.
C3_HandlerResult ==
    \A n \in LevelIds :
        (/\ ScanCompleted(levels[n])
         /\ ~FlagSet(levels[n].final, "HelpOption")
         /\ ~FlagSet(levels[n].final, "AllHelpOption"))
            => HandlerRan(n)

\* A run with arguments whose Func returned 2, and the process exited 2.
C3_Witness ==
    /\ result = [state |-> "exited", code |-> 2]
    /\ \E n \in LevelIds :
           /\ levels[n].mode = "top"
           /\ Len(levels[n].args) > 1
           /\ ScanCompleted(levels[n])
           /\ CallsOf(n) # {}
           /\ HelpsShown(levels[n].name) = 0

(***************************************************************************)
(* C4                                                                      *)
(***************************************************************************)
LongBools(L) ==
    {a \in DOMAIN L.optionTypes : L.optionTypes[a] = "bool" /\ HasPrefix(a, "--")}

NoForm(a) == "--no-" \o SliceFrom(a, 2)

Occurs(L, token) == \E k \in 1..Len(L.args) : L.args[k] = token

\* C4 as stated, on the tokens that occur in the argument vector.
C4_Original ==
    \A n \in LevelIds :
        LET L == levels[n]
        IN  ScanCompleted(L) =>
                \A a \in LongBools(L) :
                    LET F == L.optionValues[a]
                    IN  /\ (Occurs(L, a) /\ ~Occurs(L, NoForm(a))) => L.final[F].b
                        /\ (Occurs(L, NoForm(a)) /\ ~Occurs(L, a)) => ~L.final[F].b
                        /\ (~Occurs(L, a) /\ ~Occurs(L, NoForm(a)))
                              => L.final[F] = L.defaults[F]

\* The loop took a token as an alias of the bool field, or as the --no-
\* form of one.
SetBy(L, fieldName) ==
    \E k \in EventIds(L) :
        L.events[k].what = "bool" /\ Assigned(L, L.events[k]) = fieldName

ClearedBy(L, fieldName) ==
    \E k \in EventIds(L) :
        L.events[k].what = "no" /\ Assigned(L, L.events[k]) = fieldName

\* C4: for every bool option with a long alias foo: once the loop has taken
\* a token as --foo, and none as the --no- form of an alias of the option,
\* the option is true; once it has taken a token as --no-foo, and none as
\* an alias of the option, it is false; while it has taken neither kind of
\* token the option holds the value of default resolution.
C4_BoolForms ==
    \A n \in LevelIds :
        LET L == levels[n]
        IN  Discovered(L) =>
                \A a \in LongBools(L) :
                    LET F == L.optionValues[a]
                    IN  /\ ((\E k \in EventIds(L) :
                                L.events[k].what = "bool" /\ L.events[k].arg = a)
                            /\ ~ClearedBy(L, F)) => vals[L.cli][F].b
                        /\ ((\E k \in EventIds(L) :
                                L.events[k].what = "no" /\ L.events[k].arg = NoForm(a))
                            /\ ~SetBy(L, F)) => ~vals[L.cli][F].b
                        /\ (~SetBy(L, F) /\ ~ClearedBy(L, F))
                              => vals[L.cli][F] = L.defaults[F]

\* --no-color turned off the Color that the terminal had turned on, and
\* Func ran with it off.
C4_Witness ==
    \E n \in LevelIds :
        /\ levels[n].cli = "root"
        /\ levels[n].defaults["Color"].b
        /\ \E k \in EventIds(levels[n]) : levels[n].events[k].token = "--no-color"
        /\ \E k \in CallsOf(n) : ~calls[k].fields["Color"].b

(***************************************************************************)
(* C5                                                                      *)
(***************************************************************************)
ValueOptions(L) ==
    {a \in DOMAIN L.optionTypes : L.optionTypes[a] \in {"int", "string"}}

NoValueOutcome(L, a) ==
    /\ L.pc = "returned"
    /\ L.code = 1
    /\ L.called = 0
    /\ \E j \in 1..Len(stderr) : stderr[j] = Diag("no value given for option", a, "", "")

\* C5 as stated, on the last token of the argument vector, for the calls
\* that met no other error and no subcommand before it.
C5_Original ==
    \A n \in LevelIds :
        LET L == levels[n]
        IN  (/\ L.pc \in {"allhelp", "returned"}
             /\ L.via # "discover"
             /\ Len(L.args) > 0
             /\ L.args[Len(L.args)] \in ValueOptions(L)
             /\ \A k \in EventIds(L) :
                    L.events[k].what \notin
                        {"unknown option", "invalid int", "requirement", "dispatch"})
                => NoValueOutcome(L, L.args[Len(L.args)])

C5State ==
    \A n \in LevelIds :
        LET L == levels[n]
        IN  \A k \in EventIds(L) :
                (/\ L.events[k].arg \in ValueOptions(L)
                 /\ L.events[k].what # "positional"
                 /\ L.events[k].at = Len(L.args) - 1)
                    => /\ L.events[k].what = "no value"
                       /\ k = Len(L.events)
                       /\ NoValueOutcome(L, L.events[k].arg)
                       /\ HelpsShown(L.name) = 0

C5Step ==
    \A n \in LevelIds :
        (/\ Len(levels'[n].events) > Len(levels[n].events)
         /\ levels'[n].events[Len(levels'[n].events)].what = "no value")
            => /\ vals' = vals
               /\ argsField' = argsField
               /\ calls' = calls
               /\ stderr' = Append(stderr,
                      Diag("no value given for option",
                           levels'[n].events[Len(levels'[n].events)].arg, "", ""))

\* C5: when the loop reaches an alias of an int or string option as an
\* option token (not as the value of the option before it) and it is the
\* last token, the call returns 1 with "no value given" on standard error,
\* the option keeps the value it had, and Func is not run.
C5_NoValueGiven == []C5State /\ [][C5Step]_vars

\* --one as the last token after another option: the call returned 1 and
\* CommonOne is as it was.
C5_Witness ==
    \E n \in LevelIds :
        LET L == levels[n]
        IN  /\ Len(L.events) > 1
            /\ L.events[Len(L.events)].what = "no value"
            /\ L.events[Len(L.events)].arg = "--one"
            /\ L.pc = "returned" /\ L.code = 1
            /\ vals[L.cli]["CommonOne"] = L.defaults["CommonOne"]

(***************************************************************************)
(* C6                                                                      *)
(***************************************************************************)
\* The binding is the parsed value of the variable of source v when it is
\* set, and the literal of source l when not.
EnvElseLiteral(L, f, v, l) ==
    LET e == LookupEnv(SliceFrom(Sources(f)[v], 4))
    IN  /\ L.defaults[f.Name] = vals[L.cli][f.Name]
        /\ vals[L.cli][f.Name] =
              IF e.set THEN Parsed(f.Kind, e.val)
              ELSE Parsed(f.Kind, Sources(f)[l])

\* C6 as stated, whatever the order of the two sources in the tag, for the
\* variables whose value parses.
C6_Original ==
    \A n \in LevelIds :
        LET L == levels[n]
        IN  Discovered(L) =>
                \A f \in Declared[L.cli] :
                    Untouched(L, f.Name) =>
                        \A v \in EnvSources(f) : \A l \in LiteralSources(f) :
                            Parses(f.Kind, LookupEnv(SliceFrom(Sources(f)[v], 4)).val)
                                => EnvElseLiteral(L, f, v, l)

\* C6: an option whose default tag lists an environment variable first and
\* a literal after it holds, once default resolution has succeeded and with
\* no token for it, the parsed value of the variable when it is set and the
\* literal when not.
C6_EnvThenLiteral ==
    \A n \in LevelIds :
        LET L == levels[n]
        IN  Discovered(L) =>
                \A f \in Declared[L.cli] :
                    Untouched(L, f.Name) =>
                        \A v \in EnvSources(f) : \A l \in LiteralSources(f) :
                            (/\ l = v + 1
                             /\ \A k \in 1..(v - 1) : Sources(f)[k] = "")
                                => EnvElseLiteral(L, f, v, l)

\* cat ran its Func with Count 5 from $COUNT, not the literal 1.
C6_Witness ==
    \E n \in LevelIds :
        /\ levels[n].cli = "cat"
        /\ LookupEnv("COUNT") = SetTo("5")
        /\ Untouched(levels[n], "Count")
        /\ \E k \in CallsOf(n) : calls[k].fields["Count"] = IntValue(5)

(***************************************************************************)
(* C7                                                                      *)
(***************************************************************************)
\* The other defaults of cat resolve: $GLH is unset or names a file.
OtherDefaultsResolve ==
    ~LookupEnv("GLH").set \/ Stat(LookupEnv("GLH").val) = "file"

CountIs9(n) ==
    /\ Cardinality(CallsOf(n)) = 1
    /\ \A k \in CallsOf(n) : calls[k].fields["Count"] = IntValue(9)

ReqsOfField(f) == f.reqs

RequirementOutcome(L, optionName, value, fieldName) ==
    /\ L.pc = "returned"
    /\ L.code = 1
    /\ L.called = 0
    /\ HelpsShown(L.name) = 0
    /\ \E j \in 1..Len(stderr) :
           /\ stderr[j].kind \in ReqKinds
           /\ stderr[j].option = optionName
           /\ stderr[j].value = value
    /\ vals[L.cli][fieldName] # StringValue(value)

\* C8: a value that violates the requirement of a string option has the
\* same outcome whether it comes from the command line (the loop reaches
\* the option), from the environment default or from the literal default
\* (default resolution reaches the option): a diagnostic naming the option
\* and the value, result 1, the field not set to the value, Func not run
\* and no help.
C8_RequirementUniform ==
    \A n \in LevelIds :
        LET L == levels[n]
        IN  /\ \A k \in EventIds(L) :
                   LET e == L.events[k]
                   IN  (/\ MapGet(L.optionTypes, e.arg) = "string"
                        /\ e.what # "positional"
                        /\ e.at + 2 <= Len(L.args)
                        /\ Violates(ReqsOf(L.optionReqs, e.arg), L.args[e.at + 2]))
                           => RequirementOutcome(L, e.arg, L.args[e.at + 2],
                                                 L.optionValues[e.arg])
            /\ (L.pc # "discover" /\ BadEnv(L.cli) = {}) =>
                   \A f \in Declared[L.cli] :
                       (f.Kind = "string" /\ ReqsOfField(f) # {}) =>
                           LET y == FirstYielding(f)
                               e == LookupEnv(SliceFrom(Sources(f)[y], 4)).val
                               l == Sources(f)[y]
                           IN  /\ (y \in EnvSources(f) /\ Violates(ReqsOfField(f), e))
                                     => RequirementOutcome(L, FirstAlias(f), e, f.Name)
                               /\ (y \in LiteralSources(f)
                                   /\ Violates(ReqsOfField(f), l))
                                     => RequirementOutcome(L, FirstAlias(f), l, f.Name)

\* $GLH names a file that does not exist: cat returned 1 with the
\* diagnostic and HeaderFile is not set to it.
C8_Witness ==
    \E n \in LevelIds :
        /\ levels[n].cli = "cat"
        /\ LookupEnv("GLH") = SetTo("9")
        /\ RequirementOutcome(levels[n], "--header-file", "9", "HeaderFile")
        /\ \E j \in 1..Len(stderr) :
               stderr[j] = Diag("is not a file", "--header-file", "9", "")

(***************************************************************************)
(* C9                                                                      *)
(***************************************************************************)
Failed(L) ==
    /\ L.pc = "returned"
    /\ L.code = 1
    /\ L.called = 0
    /\ HelpsShown(L.name) = 0

C9State ==
    \A n \in LevelIds :
        LET L == levels[n]
        IN  /\ \A k \in EventIds(L) :
                   L.events[k].what \in ErrorKinds
                      => /\ k = Len(L.events)
                         /\ Failed(L)
                         /\ L.i = L.events[k].at
                         /\ \E j \in 1..Len(stderr) :
                                stderr[j].option = L.events[k].arg
            /\ (L.pc # "discover" /\ BadEnv(L.cli) # {})
                  => /\ Failed(L)
                     /\ L.events = <<>>
                     /\ L.i = 0
                     /\ \E f \in BadEnv(L.cli) : \E j \in 1..Len(stderr) :
                            /\ stderr[j].option = FirstAlias(f)
                            /\ stderr[j].via # ""
            /\ L.via \in {"discover", "scan"} => (Failed(L) /\ stderr # <<>>)

\* A step that writes a diagnostic, the panic over the help template apart.
C9Step ==
    (stderr' # stderr /\ result'.state # "panic")
        => /\ Len(stderr') = Len(stderr) + 1
           /\ levels'[Cur].pc = "returned"
           /\ levels'[Cur].code = 1
           /\ stdout' = stdout
           /\ calls' = calls
           /\ Len(levels') = Len(levels)

\* C9: an unknown option, a missing value, an unparsable integer, an
\* unparsable environment default or a requirement violation makes the
\* call return 1 at once: one diagnostic on standard error, no help, Func
\* not run, no later token processed.
C9_ErrorsReturnOne == []C9State /\ [][C9Step]_vars

\* An unknown option after a token already handled and before one never
\* looked at.
C9_Witness ==
    \E n \in LevelIds :
        LET L == levels[n]
        IN  /\ Len(L.events) > 1
            /\ L.events[Len(L.events)].what = "unknown option"
            /\ L.i + 1 < Len(L.args)
            /\ Failed(L)
            /\ Len(stderr) = 1

(***************************************************************************)
(* C10                                                                     *)
(***************************************************************************)
HelpOutcome(L) ==
    /\ HelpsShown(L.name) = 1
    /\ L.called = 0
    /\ L.pc = "returned" => L.code = 1

\* C10 as stated, for the calls that met no error: a token that sets the
\* help option makes the call show its help and return 1 without Func.
C10_Original ==
    \A n \in LevelIds :
        LET L == levels[n]
        IN  (SetBy(L, "HelpOption") /\ L.pc = "returned" /\ NoErrorEvent(L))
                => (HelpsShown(L.name) = 1 /\ L.code = 1 /\ L.called = 0)

\* C10: when a token sets the help option and the loop then ends with no
\* error, no subcommand and the option still true, the call shows its help,
\* returns 1 and does not run Func.
C10_HelpOption ==
    \A n \in LevelIds :
        LET L == levels[n]
        IN  (/\ SetBy(L, "HelpOption")
             /\ ScanCompleted(L)
             /\ FlagSet(L.final, "HelpOption"))
                => HelpOutcome(L)

\* --help among other arguments: the help is out, the process exited 1 and
\* Func never ran.
C10_Witness ==
    /\ result = [state |-> "exited", code |-> 1]
    /\ calls = <<>>
    /\ \E n \in LevelIds :
           /\ levels[n].mode = "top"
           /\ levels[n].via = "help"
           /\ Len(levels[n].events) > 1
           /\ SetBy(levels[n], "HelpOption")
           /\ HelpsShown(levels[n].name) = 1

(***************************************************************************)
(* C11                                                                     *)
(***************************************************************************)
\* The arguments of the call are a long alias of an int option and a
\* base-10 integer.
IntOptionArgs(L) ==
    /\ Len(L.args) = 2
    /\ HasPrefix(L.args[1], "--")
    /\ MapGet(L.optionTypes, L.args[1]) = "int"
    /\ ParseInt(L.args[2]).ok

\* C11: a command with an int option of long alias X, once its defaults
\* are resolved, run with the arguments --X N where N is a base-10 integer:
\* the option is N, the command's Func is run exactly once and sees N, and
\* the call returns Func's code, so 0 when Func returns 0.
C11_IntOption ==
    \A n \in LevelIds :
        LET L == levels[n]
            F == L.optionValues[L.args[1]]
        IN  (Discovered(L) /\ IntOptionArgs(L) /\ L.pc = "returned") =>
                /\ vals[L.cli][F] = IntValue(ParseInt(L.args[2]).v)
                /\ L.remainingArgs = <<>>
                /\ Cardinality(CallsOf(n)) = 1
                /\ \A k \in CallsOf(n) :
                       /\ calls[k].fields[F] = IntValue(ParseInt(L.args[2]).v)
                       /\ calls[k].Args = <<>>
                       /\ L.code = calls[k].code
                       /\ (L.mode = "top" /\ result.state = "exited")
                             => result.code = calls[k].code

\* version --sprinkle-count 9: Func saw 9 in place of the default 10 and the
\* process exited 0.
C11_Witness ==
    /\ result = [state |-> "exited", code |-> 0]
    /\ levels[1].cli = "version"
    /\ levels[1].args = <<"--sprinkle-count", "9">>
    /\ levels[1].defaults["SprinkleCount"] = IntValue(10)
    /\ Len(calls) = 1
    /\ calls[1].fields["SprinkleCount"] = IntValue(9)


(***************************************************************************)
(* C12                                                                     *)
(***************************************************************************)
\* C12: a command whose option field Int is a pointer to int (the test's
\* testIntPtrOptionBugCLI) is accepted: the call never panics, and run with
\* the arguments --int 1 its Func is called and sees Int pointing at 1.
C12_IntPtrOption ==
    \A n \in LevelIds :
        LET L == levels[n]
        IN  L.cli = "intptr" =>
                /\ result.state # "panic"
                /\ (L.args = <<"--int", "1">> /\ L.pc = "returned") =>
                       /\ CallsOf(n) # {}
                       /\ \A k \in CallsOf(n) :
                              calls[k].fields["Int"] = IntValue(1)


(***************************************************************************)
(* C13                                                                     *)
(***************************************************************************)
\* C13: a plain token that is a name of the command's HiddenSubcommands is
\* handed to that subcommand as a name of Subcommands is, never kept as a
\* positional argument, and no help of the command lists it.
C13_HiddenSubcommand ==
    /\ \A n \in LevelIds :
           LET L == levels[n]
           IN  \A k \in EventIds(L) :
                   (/\ L.events[k].what \in {"positional", "dispatch"}
                    /\ L.events[k].token \in DOMAIN HiddenSubcommandsField(L.cli))
                       => L.events[k].what = "dispatch"
    /\ \A j \in 1..Len(stdout) :
           stdout[j].kind = "help" =>
               \A s \in 1..Len(stdout[j].subcommands) :
                   stdout[j].subcommands[s]
                       \notin DOMAIN HiddenSubcommandsField(stdout[j].cli)


(***************************************************************************)
(* C14                                                                     *)
(***************************************************************************)
\* The names of the command's option fields that carry the hidden tag.
HiddenFields(cli) ==
    {f.Name : f \in {g \in OptionFields(TypeOf(cli)) : g.hidden # ""}}

\* C14: no help of a command has a row for an option field that carries the
\* hidden tag, and a token that is an alias of such a field is still taken
\* as that option and assigns the field.
C14_HiddenOption ==
    /\ \A j \in 1..Len(stdout) :
           stdout[j].kind = "help" =>
               \A r \in 1..Len(stdout[j].options) :
                   stdout[j].options[r].help \notin HiddenFields(stdout[j].cli)
    /\ \A n \in LevelIds :
           LET L == levels[n]
           IN  \A k \in EventIds(L) :
                   (/\ Discovered(L)
                    /\ L.events[k].token = L.events[k].arg
                    /\ MapGet(L.optionValues, L.events[k].arg)
                           \in HiddenFields(L.cli))
                       => /\ L.events[k].what = "bool"
                          /\ \/ FlagSet(vals[L.cli], "Secret")
                             \/ ClearedBy(L, "Secret")


(***************************************************************************)
(* C15                                                                     *)
(***************************************************************************)
\* The aliases an option field declares.
AliasesOf(f) == {Split(f.option)[k] : k \in 1..Len(Split(f.option))}

\* Two option fields of the command, of different names, declare one alias.
AliasClash(cli) ==
    \E f, g \in OptionFields(TypeOf(cli)) :
        f.Name # g.Name /\ AliasesOf(f) \cap AliasesOf(g) # {}

\* C15: a command in which two option fields of different names declare the
\* same alias is rejected while its options are discovered: no call of it
\* gets as far as scanning its arguments with one field's registration
\* having replaced the other's.
C15_AliasCollision ==
    \A n \in LevelIds :
        AliasClash(levels[n].cli) => ~Discovered(levels[n])


(***************************************************************************)
(* C16                                                                     *)
(***************************************************************************)
\* The option fields the command declares itself, and those its embedded
\* groups declare.
OwnOptions(cli) ==
    {TypeOf(cli)[k] : k \in {j \in 1..Len(TypeOf(cli)) :
                                /\ TypeOf(cli)[j].Kind # "struct"
                                /\ TypeOf(cli)[j].option # ""}}

GroupOptions(cli) ==
    UNION {OptionFields(TypeOf(cli)[k].Sub)
           : k \in {j \in 1..Len(TypeOf(cli)) : TypeOf(cli)[j].Kind = "struct"}}

\* The names under which the aliases of a field are registered.
OptionNamesOf(f) == {OptionName(a) : a \in AliasesOf(f) \ {""}}

\* The rows a call's help has for a field.
RowsOf(L, fieldName) ==
    {r \in 1..Len(L.optionHelpData) : L.optionHelpData[r].help = fieldName}

MultilineRowsOf(L, fieldName) ==
    {r \in 1..Len(L.multilineOptionHelpData) :
        L.multilineOptionHelpData[r].help = fieldName}

\* The field after default resolution as the declaration t alone makes it,
\* for a default tag that is empty or one literal.
OwnDefault(t) ==
    IF t.default = "" THEN Zero(t.Kind) ELSE Parsed(t.Kind, t.default)

\* C16: when a command declares an option field itself and an embedded
\* group declares a field of the same name, then after discovery only the
\* command's own declaration has taken effect: an alias that only the
\* group's field declares is not registered, the field holds the default of
\* the command's own tag (a tag of at most one literal), not the group's,
\* and the help has one row for the field, the row of the command's own
\* declaration.
C16_OverrideByName ==
    \A n \in LevelIds :
        LET L == levels[n]
        IN  \A t \in OwnOptions(L.cli) :
            \A g \in GroupOptions(L.cli) :
                (/\ Discovered(L)
                 /\ g.Name = t.Name
                 /\ Len(Split(t.default)) = 1
                 /\ ~HasPrefix(t.default, "env:")
                 /\ t.default # "terminal")
                    => /\ \A a \in OptionNamesOf(g) :
                              IF a \in OptionNamesOf(t)
                              THEN /\ L.optionTypes[a] = t.Kind
                                   /\ L.optionValues[a] = t.Name
                              ELSE a \notin DOMAIN L.optionTypes
                       /\ L.defaults[t.Name] = OwnDefault(t)
                       /\ MultilineRowsOf(L, t.Name) = {}
                       /\ Cardinality(RowsOf(L, t.Name)) = 1
                       /\ \A r \in RowsOf(L, t.Name) :
                              L.optionHelpData[r] =
                                  HelpRow(Join(optionHelpNames(Split(t.option),
                                                               t.Kind, 1), " "), t)

\* The command that overrides SprinkleType, run with --sprinkle-type 3: the
\* alias is the group's only, so it is an unknown option; the default 7 of
\* the group's field was not applied, and the help that follows a later
\* --help has the one row --kind n.
C16_Witness ==
    /\ result = [state |-> "exited", code |-> 1]
    /\ levels[1].cli = "shadow"
    /\ levels[1].args = <<"--sprinkle-type", "3">>
    /\ levels[1].via = "scan"
    /\ "--sprinkle-type" \notin DOMAIN levels[1].optionTypes
    /\ "-t" \notin DOMAIN levels[1].optionTypes
    /\ levels[1].defaults["SprinkleType"] = IntValue(0)
    /\ levels[1].defaults["SprinkleCount"] = IntValue(10)
    /\ \E r \in RowsOf(levels[1], "SprinkleType") :
           levels[1].optionHelpData[r].names = "--kind n"


(***************************************************************************)
(* C17                                                                     *)
(***************************************************************************)
\* C17: in one run, from the top-level call to its return, default
\* resolution asks at most once whether the output is a terminal, whatever
\* the number of options with the terminal default and of calls of
\* runSubcommand made for subcommands.
C17_TerminalProbeOnce == probes <= 1


(***************************************************************************)
(* C18                                                                     *)
(***************************************************************************)
\* The token the loop is about to handle has the single-dash form of a long
\* name and is no alias itself.
SingleDashNext(L) ==
    /\ L.pc = "scan"
    /\ L.i < Len(L.args)
    /\ ~L.noMore
    /\ Len(L.args[L.i + 1]) > 1
    /\ ByteAt(L.args[L.i + 1], 0) = "-"
    /\ ByteAt(L.args[L.i + 1], 1) # "-"
    /\ L.args[L.i + 1] \notin DOMAIN L.optionTypes

\* The call with the double-dash form in place of its next token.
DoubleDashed(L) == [L EXCEPT !.args[L.i + 1] = "-" \o @]

\* What an iteration did, the token itself left out.
Effect(step) ==
    [fields |-> step.fields, diag |-> step.diag, call |-> step.call,
     pc |-> step.L.pc, i |-> step.L.i, code |-> step.L.code,
     via |-> step.L.via, noMore |-> step.L.noMore,
     remainingArgs |-> step.L.remainingArgs,
     arg |-> step.L.events[Len(step.L.events)].arg,
     what |-> step.L.events[Len(step.L.events)].what]

\* C18: whenever the loop is about to handle a token -name (longer than one
\* byte, second byte not "-") that is no alias itself, handling it does what
\* handling --name in its place does: the same option is resolved, the same
\* fields are assigned, the same number of tokens is consumed, the same
\* diagnostic is printed and the same code returned, whether --name is a
\* bool, int or string option, the --no- form of a bool option, or unknown.
C18_SingleDash ==
    \A n \in LevelIds :
        SingleDashNext(levels[n]) =>
            Effect(scanToken(levels[n], vals[levels[n].cli]))
                = Effect(scanToken(DoubleDashed(levels[n]), vals[levels[n].cli]))

\* version -sprinkle-count 9: the single-dash token was taken as the option
\* --sprinkle-count, the 9 as its value, and Func saw 9.
C18_Witness ==
    /\ result.state = "exited"
    /\ levels[1].cli = "version"
    /\ levels[1].args = <<"-sprinkle-count", "9">>
    /\ Len(levels[1].events) = 1
    /\ levels[1].events[1].token = "-sprinkle-count"
    /\ levels[1].events[1].arg = "--sprinkle-count"
    /\ levels[1].events[1].what = "int"
    /\ Len(calls) = 1
    /\ calls[1].fields["SprinkleCount"] = IntValue(9)


(***************************************************************************)
(* C19                                                                     *)
(***************************************************************************)
\* The token the loop is about to handle is --all-help and is no alias of
\* the command.
AllHelpNext(L) ==
    /\ L.pc = "scan"
    /\ L.i < Len(L.args)
    /\ ~L.noMore
    /\ L.args[L.i + 1] = "--all-help"
    /\ "--all-help" \notin DOMAIN L.optionTypes

\* The call with --help in place of its next token.
AsHelp(L) == [L EXCEPT !.args[L.i + 1] = "--help"]

\* The iteration fails with "unknown option".
UnknownOption(step) ==
    /\ Effect(step).what = "unknown option"
    /\ Effect(step).pc = "returned"
    /\ Effect(step).code = 1
    /\ Len(step.diag) = 1

\* C19 as stated: --all-help that is no alias is handled as --help is when
\* the command has subcommands, and is an unknown option, the call returning
\* 1, when it has none.
C19_Original ==
    \A n \in LevelIds :
        LET L == levels[n]
        IN  AllHelpNext(L) =>
                IF L.subcommands # EmptyMap
                THEN Effect(scanToken(L, vals[L.cli]))
                         = Effect(scanToken(AsHelp(L), vals[L.cli]))
                ELSE UnknownOption(scanToken(L, vals[L.cli]))

\* C19: --all-help that is no alias of the command is handled as --help is
\* in its place, whether the command has subcommands or not; it is an
\* unknown option, the call returning 1, only when --help is no alias of the
\* command either, and the diagnostic then names --help.
C19_AllHelpFallback ==
    \A n \in LevelIds :
        LET L == levels[n]
        IN  AllHelpNext(L) =>
                /\ Effect(scanToken(L, vals[L.cli]))
                       = Effect(scanToken(AsHelp(L), vals[L.cli]))
                /\ UnknownOption(scanToken(L, vals[L.cli]))
                       <=> "--help" \notin DOMAIN L.optionTypes
                /\ UnknownOption(scanToken(L, vals[L.cli]))
                       => scanToken(L, vals[L.cli]).diag[1].option = "--help"

\* version --all-help: the only subcommand, which has no subcommands and no
\* all-help option, was run with --all-help, took it for --help and
\* rendered its help.
C19_Witness ==
    \E n \in LevelIds :
        /\ levels[n].cli = "only"
        /\ levels[n].mode = "allhelp"
        /\ levels[n].subcommands = EmptyMap
        /\ levels[n].args = <<"--all-help">>
        /\ "--all-help" \notin DOMAIN levels[n].optionTypes
        /\ Len(levels[n].events) = 1
        /\ levels[n].events[1].arg = "--help"
        /\ levels[n].events[1].what = "bool"
        /\ levels[n].pc = "returned"
        /\ levels[n].code = 1
        /\ levels[n].helped = 1


(***************************************************************************)
(* C20                                                                     *)
(***************************************************************************)
\* The names in ascending order.
Ascending(names) ==
    CHOOSE seq \in [1..Cardinality(names) -> names] :
        \A a, b \in 1..Cardinality(names) : a < b => StringLess(seq[a], seq[b])

\* The help of a command run under a name, and the separator before it.
HelpOf(cli, name) ==
    helpFunc([name |-> name, cli |-> cli,
              optionHelpData |-> discover(cli, ZeroFields(cli)).optionHelpData,
              multilineOptionHelpData |->
                  discover(cli, ZeroFields(cli)).multilineOptionHelpData,
              subcommands |-> subcommandsOf(cli)])

SeparatorOf(cli, name) ==
    [kind |-> "separator", name |-> name, cli |-> cli,
     options |-> <<>>, subcommands |-> <<>>]

\* Whether --all-help, or --help, is an option of the command, and whether
\* its options can be discovered at all in this environment.
HasAllHelp(cli) ==
    MapGet(discover(cli, ZeroFields(cli)).optionValues, "--all-help")
        = "AllHelpOption"

HasHelp(cli) ==
    MapGet(discover(cli, ZeroFields(cli)).optionValues, "--help") = "HelpOption"

Discoverable(cli) == discover(cli, ZeroFields(cli)).code = 0

\* The output the claim describes: the help of the command, then for each
\* subcommand in ascending order its separator and the like output of the
\* subcommand, descendants included.
RECURSIVE WholeTree(_, _)
RECURSIVE WholeTreeFrom(_, _, _, _)
WholeTree(cli, name) ==
    <<HelpOf(cli, name)>>
        \o WholeTreeFrom(cli, name, Ascending(DOMAIN subcommandsOf(cli)), 1)

WholeTreeFrom(cli, name, names, k) ==
    IF k > Len(names) THEN <<>>
    ELSE <<SeparatorOf(subcommandsOf(cli)[names[k]], name \o " " \o names[k])>>
         \o WholeTree(subcommandsOf(cli)[names[k]], name \o " " \o names[k])
         \o WholeTreeFrom(cli, name, names, k + 1)

\* The output of the code: as above, but under a separator comes what the
\* subcommand prints when run with the one argument --all-help: nothing if
\* its options cannot be discovered or it has neither option, its help alone
\* if it has no all-help option of its own.
RECURSIVE AllHelpOutput(_, _)
RECURSIVE AllHelpFrom(_, _, _, _)
RECURSIVE UnderSeparator(_, _)
AllHelpOutput(cli, name) ==
    <<HelpOf(cli, name)>>
        \o AllHelpFrom(cli, name, Ascending(DOMAIN subcommandsOf(cli)), 1)

AllHelpFrom(cli, name, names, k) ==
    IF k > Len(names) THEN <<>>
    ELSE <<SeparatorOf(subcommandsOf(cli)[names[k]], name \o " " \o names[k])>>
         \o UnderSeparator(subcommandsOf(cli)[names[k]], name \o " " \o names[k])
         \o AllHelpFrom(cli, name, names, k + 1)

UnderSeparator(cli, name) ==
    IF ~Discoverable(cli) THEN <<>>
    ELSE IF HasAllHelp(cli) THEN AllHelpOutput(cli, name)
    ELSE IF HasHelp(cli) THEN <<HelpOf(cli, name)>>
    ELSE <<>>

\* The last records of standard output are these.
EndsWith(out, expected) ==
    /\ Len(out) >= Len(expected)
    /\ SubSeq(out, Len(out) - Len(expected) + 1, Len(out)) = expected

\* The call has just returned: nothing has been printed since.
JustReturned(n) ==
    /\ levels[n].pc = "returned"
    /\ \/ stack # <<>> /\ Cur = n
       \/ n = 1 /\ result.state = "exited"

\* No Func was run by the call or by a call made after it began.
NoHandlerSince(n) == \A m \in n..Len(levels) : CallsOf(m) = {}

\* C20 as stated: once a token has set the all-help option of a call, the
\* call returns 1 having run no Func, and its output is its help followed,
\* for each subcommand in ascending order, by a separator and the
\* subcommand's help and that of its descendants.
C20_Original ==
    \A n \in LevelIds :
        (/\ SetBy(levels[n], "AllHelpOption")
         /\ ~ClearedBy(levels[n], "AllHelpOption")
         /\ JustReturned(n))
            => /\ levels[n].code = 1
               /\ NoHandlerSince(n)
               /\ EndsWith(stdout, WholeTree(levels[n].cli, levels[n].name))

\* C20: when a call gets to the end of its arguments with no error and no
\* subcommand run, and its all-help option is set, it returns 1 having run
\* no Func at any level, and its output is in this order: its help, then for
\* each subcommand in ascending name order a separator naming the call's
\* name and the subcommand's, followed by what the subcommand prints when
\* run with the one argument --all-help: the same output in turn if the
\* subcommand has the all-help option itself, its help alone if it has only
\* the help option, and nothing if it has neither or its defaults cannot be
\* resolved.
C20_AllHelp ==
    \A n \in LevelIds :
        (levels[n].via = "allhelp" /\ JustReturned(n))
            => /\ levels[n].code = 1
               /\ NoHandlerSince(n)
               /\ EndsWith(stdout, AllHelpOutput(levels[n].cli, levels[n].name))
               /\ (n = 1 /\ result.state = "exited")
                     => /\ result.code = 1
                        /\ stdout = AllHelpOutput(levels[1].cli, levels[1].name)

\* The command above root and version, run with --all-help: its help, then
\* under the separator of root the help of root alone, which has no
\* all-help option, then under that of version the help of version and,
\* after a further separator, of its subcommand only.
C20_Witness ==
    /\ result = [state |-> "exited", code |-> 1]
    /\ levels[1].cli = "suite"
    /\ levels[1].args = <<"--all-help">>
    /\ levels[1].via = "allhelp"
    /\ calls = <<>>
    /\ Len(stdout) = 7
    /\ [j \in 1..7 |-> stdout[j].kind]
           = <<"help", "separator", "help", "separator", "help", "separator",
               "help">>
    /\ [j \in 1..7 |-> stdout[j].cli]
           = <<"suite", "root", "root", "version", "version", "only", "only">>
    /\ stdout[6].name = Program \o " version only"


(***************************************************************************)
(* C21                                                                     *)
(***************************************************************************)
\* The tokens of args from the k-th on that are neither options, nor the
\* values of int and string options, nor the terminator, in their order;
\* after the terminator every token counts.
RECURSIVE Positionals(_, _, _, _)
Positionals(args, optionTypes, k, afterTerminator) ==
    IF k > Len(args) THEN <<>>
    ELSE IF afterTerminator
    THEN <<args[k]>> \o Positionals(args, optionTypes, k + 1, TRUE)
    ELSE IF args[k] = "--" THEN Positionals(args, optionTypes, k + 1, TRUE)
    ELSE IF ByteAt(args[k], 0) = "-"
    THEN IF resolveArg(optionTypes, args[k]).optionType \in {"int", "string"}
         THEN Positionals(args, optionTypes, k + 2, FALSE)
         ELSE Positionals(args, optionTypes, k + 1, FALSE)
    ELSE <<args[k]>> \o Positionals(args, optionTypes, k + 1, FALSE)

\* C21: when the loop of a call ends without an error and without running a
\* subcommand, remainingArgs is the sequence, in the order of the command
\* line, of the tokens that were neither taken as options, nor consumed as
\* the value of an option, nor the terminator; it is what Func finds in Args.
C21_PositionalSink ==
    \A n \in LevelIds :
        LET L == levels[n]
        IN  ScanCompleted(L) =>
                /\ L.remainingArgs = Positionals(L.args, L.optionTypes, 1, FALSE)
                /\ \A k \in CallsOf(n) : calls[k].Args = L.remainingArgs

\* version f --two 9: of the three tokens the two around the bool option
\* are positional, and Func found them in Args in their order.
C21_Witness ==
    /\ result.state = "exited"
    /\ levels[1].cli = "version"
    /\ levels[1].args = <<"f", "--two", "9">>
    /\ levels[1].remainingArgs = <<"f", "9">>
    /\ Len(calls) = 1
    /\ calls[1].Args = <<"f", "9">>


(***************************************************************************)
(* C22                                                                     *)
(***************************************************************************)
\* The first of the names of a row, and its key: lower case, without the
\* leading dashes.
RECURSIVE UpToSpace(_)
UpToSpace(str) ==
    IF str = "" THEN ""
    ELSE IF SubSeq(str, 1, 1) \in {" ", "\n"} THEN ""
    ELSE SubSeq(str, 1, 1) \o UpToSpace(Tail(str))

PrimaryKey(row) == ToLower(TrimLeft(UpToSpace(row.names)))

\* The rows of an option table that take one line, those that take a line
\* per name, and the rows of the help and all-help options.
RECURSIVE HasNewline(_)
HasNewline(str) ==
    str # "" /\ (SubSeq(str, 1, 1) = "\n" \/ HasNewline(Tail(str)))

OneLineRows(rows) ==
    {r \in 1..Len(rows) : rows[r] # NilRow /\ ~HasNewline(rows[r].names)}

WrappedRows(rows) ==
    {r \in 1..Len(rows) : rows[r] # NilRow /\ r \notin OneLineRows(rows)}

IsHelpRow(row) == row.help = "HelpOption"

IsAllHelpRow(row) == row.help = "AllHelpOption"

\* C22: in the option table of every help, the row of the help option is
\* the first; the row of the all-help option is the second, and is there
\* only if the command has subcommands; the other one-line rows follow in
\* the order of their first names, lower case and without the leading
\* dashes; the rows that take a line per name come after all one-line rows,
\* in the order of their names.
C22_OptionOrder ==
    \A j \in 1..Len(stdout) :
        stdout[j].kind = "help" =>
            LET rows == stdout[j].options
                other == {r \in OneLineRows(rows) :
                             ~IsHelpRow(rows[r]) /\ ~IsAllHelpRow(rows[r])}
            IN  /\ \A r \in 1..Len(rows) : IsHelpRow(rows[r]) => r = 1
                /\ \A r \in 1..Len(rows) :
                       IsAllHelpRow(rows[r]) =>
                           /\ r = 2
                           /\ subcommandsOf(stdout[j].cli) # EmptyMap
                /\ \A r, s \in other :
                       r < s => ~StringLess(PrimaryKey(rows[s]), PrimaryKey(rows[r]))
                /\ \A r \in OneLineRows(rows) : \A s \in WrappedRows(rows) : r < s
                /\ \A r, s \in WrappedRows(rows) :
                       r < s => ~StringLess(rows[s].names, rows[r].names)


(***************************************************************************)
(* C23                                                                     *)
(***************************************************************************)
\* The step leaves the options, the Args and the Parent of the command as
\* they are.
Kept(cli) ==
    /\ vals'[cli] = vals[cli]
    /\ argsField'[cli] = argsField[cli]
    /\ parentField'[cli] = parentField[cli]

\* The commands whose calls are waiting for the running call to return.
Ancestors == {levels[stack[k]].cli : k \in 1..(Len(stack) - 1)}

\* C23: a step of the running call writes the options, the Args and the
\* Parent of its own command only: those of every other command, the
\* commands of the calls that wait for it among them, stay as they are.
C23Step ==
    stack # <<>> =>
        /\ \A cli \in Nodes \ {levels[stack[Len(stack)]].cli} : Kept(cli)
        /\ \A cli \in Ancestors : Kept(cli)

C23_Frame == [][C23Step]_vars

\* root -v cat f: cat ran under root, found f in its Args, its Count at the
\* default and root in its Parent, while root's Debug stayed set and root's
\* Args stayed empty.
C23_Witness ==
    /\ result.state = "exited"
    /\ levels[1].cli = "root"
    /\ levels[1].args = <<"-v", "cat", "f">>
    /\ Len(levels) = 2
    /\ levels[2].cli = "cat"
    /\ levels[2].via = "func"
    /\ FlagSet(vals["root"], "Debug")
    /\ argsField["root"] = <<>>
    /\ argsField["cat"] = <<"f">>
    /\ vals["cat"]["Count"] = IntValue(1)
    /\ parentField["cat"] = "root"


(***************************************************************************)
(* C24                                                                     *)
(***************************************************************************)
\* The command is wrongly declared: its Help is no template, or one of its
\* option fields is of a kind that cannot be an option, names a requirement
\* that does not exist, or has a literal default that is no value of its
\* kind.
WronglyDeclared(cli) ==
    \/ ~templateParses(HelpField(cli), FALSE)
    \/ \E f \in OptionFields(TypeOf(cli)) :
           \/ f.Kind \notin {"bool", "int", "string"}
           \/ ~RequiredOK(f.required)
    \/ \E f \in Declared[cli] :
           \E k \in LiteralSources(f) : ~Parses(f.Kind, Sources(f)[k])

\* C24: a call of a wrongly declared command never gets past the discovery
\* of its options, and when it ends the run in a panic nothing has been
\* written to standard output or to standard error since the run began,
\* whether the call is the top one, was made for a subcommand named on the
\* command line, or was made by the loop of --all-help.
C24_FatalBeforeOutput ==
    \A n \in LevelIds :
        WronglyDeclared(levels[n].cli) =>
            /\ levels[n].pc = "discover"
            /\ result.state = "panic" => (stdout = <<>> /\ stderr = <<>>)


(***************************************************************************)
(* C25                                                                     *)
(***************************************************************************)
\* The option fields of the command that are registered: its own, and those
\* of its embedded groups that it does not declare itself.
Registered(cli) ==
    OwnOptions(cli) \cup
        {g \in GroupOptions(cli) : \A t \in OwnOptions(cli) : t.Name # g.Name}

\* The tags of a field taken apart, as Declared holds them.
DeclaredAs(cli, f) ==
    CHOOSE r \in Declared[cli] :
        /\ r.Name = f.Name
        /\ r.sources = Split(f.default)
        /\ r.alias = OptionName(Split(f.option)[1])

\* What the first yielding source of a field gives it; the zero value if no
\* source yields.
FirstYield(kind, r) ==
    IF FirstYielding(r) = 0 THEN Zero(kind)
    ELSE IF FirstYielding(r) \in EnvSources(r)
    THEN Parsed(kind, LookupEnv(SliceFrom(Sources(r)[FirstYielding(r)], 4)).val)
    ELSE IF Sources(r)[FirstYielding(r)] = "terminal" THEN BoolValue(terminal)
    ELSE Parsed(kind, Sources(r)[FirstYielding(r)])

\* C25: after the defaults of a call have been resolved, every option field
\* holds what the first source of its default tag that yields a value
\* gives: an environment source yields when its variable is set, the
\* terminal source and a literal always; the sources after that one change
\* nothing; a field of which no source yields holds its zero value.
C25_FirstYielding ==
    \A n \in LevelIds :
        Discovered(levels[n]) =>
            \A f \in Registered(levels[n].cli) :
                levels[n].defaults[f.Name]
                    = FirstYield(f.Kind, DeclaredAs(levels[n].cli, f))

\* The header command with $COUNT set to 5 and $GLH to f: Level, of tag
\* 1,env:COUNT, holds the literal 1 listed first, not 5; HeaderFile, of tag
\* env:GLH,f, holds $GLH; HelpOption, without sources, is false.
C25_Witness ==
    /\ levels[1].cli = "header"
    /\ Discovered(levels[1])
    /\ env["COUNT"] = SetTo("5")
    /\ env["GLH"] = SetTo("f")
    /\ levels[1].defaults["Level"] = IntValue(1)
    /\ levels[1].defaults["HeaderFile"] = StringValue("f")
    /\ levels[1].defaults["HelpOption"] = BoolValue(FALSE)


(***************************************************************************)
(* C26                                                                     *)
(***************************************************************************)
\* The height of the tree of subcommands under a command.
RECURSIVE Height(_)
Height(cli) ==
    IF subcommandsOf(cli) = EmptyMap THEN 0
    ELSE LET below == {Height(subcommandsOf(cli)[s]) : s \in DOMAIN subcommandsOf(cli)}
         IN  1 + CHOOSE h \in below : \A g \in below : g <= h

\* Every call made for a subcommand is for a command one level down the
\* tree; one made for a name on the command line has fewer arguments than
\* the call that made it.
C26Descent ==
    \A n \in LevelIds :
        levels[n].parent # 0 =>
            /\ \E s \in DOMAIN subcommandsOf(levels[levels[n].parent].cli) :
                   /\ subcommandsOf(levels[levels[n].parent].cli)[s] = levels[n].cli
                   /\ levels[n].name = levels[levels[n].parent].name \o " " \o s
            /\ Height(levels[n].cli) < Height(levels[levels[n].parent].cli)
            /\ levels[n].mode = "dispatch"
                  => Len(levels[n].args) < Len(levels[levels[n].parent].args)
            /\ levels[n].mode = "allhelp" => levels[n].args = <<"--all-help">>

\* The greatest of a set of numbers, 0 for the empty set.
Max(S) == IF S = {} THEN 0 ELSE CHOOSE h \in S : \A g \in S : g <= h

\* A bound on the steps of a call of a command with m arguments, its return
\* included: the discovery, a step per argument, the end of the loop, the
\* loop of --all-help with a call of one argument per subcommand, and the
\* call for a subcommand named by an argument, which has m - 1 at most.
RECURSIVE StepsOfCall(_, _)
RECURSIVE StepsOfAllHelp(_, _)
StepsOfCall(cli, m) ==
    m + 3 + StepsOfAllHelp(cli, 0)
      + (IF m = 0 THEN 0
         ELSE Max({StepsOfCall(subcommandsOf(cli)[s], m - 1)
                   : s \in DOMAIN subcommandsOf(cli)}))

\* The steps of the loop of --all-help after the first done subcommands.
StepsOfAllHelp(cli, done) ==
    LET names == Ascending(DOMAIN subcommandsOf(cli))
        RECURSIVE From(_)
        From(k) == IF k > Len(names) THEN 1
                   ELSE 1 + StepsOfCall(subcommandsOf(cli)[names[k]], 1) + From(k + 1)
    IN  From(done + 1)

\* The two bounds, for every command and every count that occurs.
CallSteps ==
    [cli \in Nodes |->
        [m \in 0..(Max({MaxArgs, RepeatLen}) + 1) |-> StepsOfCall(cli, m)]]
AllHelpSteps ==
    [cli \in Nodes |->
        [done \in 0..(Cardinality(DOMAIN subcommandsOf(cli)) + 1) |->
            StepsOfAllHelp(cli, done)]]

\* A bound on the steps left to the k-th call on the stack.
StepsLeft(k) ==
    LET L == levels[stack[k]]
        left == Len(L.args) - L.i
    IN  CASE L.pc = "discover" -> CallSteps[L.cli][Len(L.args)]
          [] L.pc = "scan" ->
                IF left <= 0 THEN 2 + AllHelpSteps[L.cli][0]
                ELSE CallSteps[L.cli][left] - 1
          [] L.pc = "allhelp" ->
                1 + AllHelpSteps[L.cli][IF k < Len(stack) THEN L.k + 1 ELSE L.k]
          [] OTHER -> 1

RECURSIVE StepsLeftFrom(_)
StepsLeftFrom(k) ==
    IF k > Len(stack) THEN 0 ELSE StepsLeft(k) + StepsLeftFrom(k + 1)

\* A bound on the steps left to the run.
Measure == IF result.state = "running" THEN 1 + StepsLeftFrom(1) ELSE 0

\* While the run has not ended, the call on top of the stack has a step to
\* take.
NotStuck ==
    result.state = "running" =>
        /\ stack # <<>>
        /\ levels[stack[Len(stack)]].pc \in {"discover", "scan", "allhelp", "returned"}

\* C26: every run ends, with an exit code or in a panic, whatever the
\* arguments: until it has ended there is a step to take, and every step
\* lowers a bound on the steps left, which rests on this: a call made for a
\* subcommand named on the command line has fewer arguments than its
\* caller, and a call made by the loop of --all-help is for a command one
\* level down the tree.
C26_Terminates ==
    [](C26Descent /\ NotStuck /\ Measure \in Nat)
        /\ [][Measure' < Measure]_vars

\* The command above root and version run with version --all-help: a call
\* for the name on the command line, a call by the loop of --all-help
\* under it, and the exit with 1.
C26_Witness ==
    /\ result = [state |-> "exited", code |-> 1]
    /\ levels[1].cli = "suite"
    /\ levels[1].args = <<"version", "--all-help">>
    /\ Len(levels) = 3
    /\ levels[2].mode = "dispatch"
    /\ levels[2].args = <<"--all-help">>
    /\ levels[3].mode = "allhelp"
    /\ levels[3].cli = "only"


\* C26 as stated: a run that has ended has ended with a result code.
C26_Original == result.state # "running" => result.state = "exited"


(***************************************************************************)
(* C27                                                                     *)
(***************************************************************************)
\* Whether a path is what a requirement asks for; "" asks for nothing.
Admits(req, path) ==
    CASE req = "file" -> Stat(path) # "absent" /\ Stat(path) # "dir"
      [] req = "dir" -> Stat(path) # "absent" /\ Stat(path) = "dir"
      [] req = "dirorfile" -> Stat(path) # "absent"
      [] req = "" -> TRUE

\* The string options of a command with one requirement at most.
StringOptions(cli) ==
    {f \in Registered(cli) :
        f.Kind = "string" /\ f.required \in {"", "file", "dir", "dirorfile"}}

\* The value default resolution sets the option to; its first yielding
\* source is not 0.
DefaultValue(r) ==
    IF FirstYielding(r) \in EnvSources(r)
    THEN LookupEnv(SliceFrom(Sources(r)[FirstYielding(r)], 4)).val
    ELSE Sources(r)[FirstYielding(r)]

\* Every default of a string option is what its requirement asks for.
DefaultsAdmitted(cli) ==
    \A f \in StringOptions(cli) :
        FirstYielding(DeclaredAs(cli, f)) # 0
            => Admits(f.required, DefaultValue(DeclaredAs(cli, f)))

\* The k-th token of the call was resolved to the string option f and has
\* a token after it.
SetsString(L, k, f) ==
    /\ L.events[k].arg \in OptionNamesOf(f)
    /\ MapGet(L.optionTypes, L.events[k].arg) = "string"
    /\ L.events[k].what # "positional"
    /\ L.events[k].at + 2 <= Len(L.args)

\* C27: a value given to a string option is taken exactly when the path is
\* what the option's requirement asks for: a file for file, a directory for
\* dir, either for dirorfile, anything for an option with no requirement.
\* A value taken from the command line is stored; one refused leaves a
\* diagnostic and result 1.  Default resolution succeeds exactly when every
\* default it sets is taken.  An option that no default and no token sets is
\* not checked: every diagnostic of a requirement is about a token's value
\* or a default's.
C27_Requirement ==
    \A n \in LevelIds :
        LET L == levels[n]
        IN  /\ \A f \in StringOptions(L.cli) :
                 /\ \A k \in EventIds(L) :
                        SetsString(L, k, f) =>
                            LET v == L.args[L.events[k].at + 2]
                            IN  /\ L.events[k].what = "string"
                                      <=> Admits(f.required, v)
                                /\ L.events[k].what # "string"
                                      => RequirementOutcome(L, L.events[k].arg, v, f.Name)
                                /\ (L.events[k].what = "string" /\ k = Len(L.events))
                                      => vals[L.cli][f.Name] = StringValue(v)
                 /\ (Len(levels) = 1 /\ L.pc # "discover") =>
                        \A j \in 1..Len(stderr) :
                            (stderr[j].kind \in ReqKinds
                             /\ stderr[j].option \in OptionNamesOf(f)) =>
                                \/ \E k \in EventIds(L) :
                                       /\ SetsString(L, k, f)
                                       /\ stderr[j].value = L.args[L.events[k].at + 2]
                                \/ /\ FirstYielding(DeclaredAs(L.cli, f)) # 0
                                   /\ stderr[j].value = DefaultValue(DeclaredAs(L.cli, f))
            /\ (L.pc # "discover" /\ BadEnv(L.cli) = {}) =>
                   (Discovered(L) <=> DefaultsAdmitted(L.cli))

\* paths --target f with f a file and $GLH unset: Target is f and Func ran.
C27_Witness ==
    /\ result = [state |-> "exited", code |-> 0]
    /\ levels[1].cli = "paths"
    /\ levels[1].args = <<"--target", "f">>
    /\ Stat("f") = "file"
    /\ ~env["GLH"].set
    /\ levels[1].called = 1
    /\ vals["paths"]["Target"] = StringValue("f")
    /\ vals["paths"]["OutDir"] = StringValue("")
    /\ stderr = <<>>


(***************************************************************************)
(* C28                                                                     *)
(***************************************************************************)
\* C28: a token that is "-" and nothing more is no option: the loop, when
\* it reaches it, runs the subcommand of that name or, there being none,
\* appends it to Args, and no diagnostic calls it an unknown option.
C28_DashAlone ==
    /\ \A n \in LevelIds : \A k \in EventIds(levels[n]) :
           levels[n].events[k].token = "-" =>
               /\ levels[n].events[k].arg = "-"
               /\ levels[n].events[k].what
                      = (IF "-" \in DOMAIN levels[n].subcommands
                         THEN "dispatch" ELSE "positional")
    /\ \A j \in 1..Len(stderr) :
           ~(stderr[j].kind = "unknown option" /\ stderr[j].option = "-")


(***************************************************************************)
(* C29                                                                     *)
(***************************************************************************)
\* The k-th token the loop of the call reached was resolved to an int or
\* string option and has a token after it.
TakesValue(L, k) ==
    /\ MapGet(L.optionTypes, L.events[k].arg) \in {"int", "string"}
    /\ L.events[k].what \notin {"positional", "dispatch", "terminator"}
    /\ L.events[k].at + 2 <= Len(L.args)

Setters(L, fieldName) ==
    {k \in EventIds(L) :
        /\ L.events[k].what \in {"bool", "no", "int", "string"}
        /\ Assigned(L, L.events[k]) = fieldName}

\* What the k-th token the loop reached stores in the field it sets.
Stored(L, k) ==
    CASE L.events[k].what = "bool" -> BoolValue(TRUE)
      [] L.events[k].what = "no" -> BoolValue(FALSE)
      [] L.events[k].what = "int"
            -> IntValue(ParseInt(L.args[L.events[k].at + 2]).v)
      [] L.events[k].what = "string"
            -> StringValue(L.args[L.events[k].at + 2])

\* C30: an option set by several tokens of one call, by one alias again, by
\* another alias or by the --no- form, holds what the last of them stored,
\* whatever the earlier ones stored; so it does when the loop has ended and
\* when Func runs.
C30_LastWins ==
    \A n \in LevelIds :
        LET L == levels[n]
        IN  Discovered(L) =>
                \A F \in DOMAIN vals[L.cli] :
                    Setters(L, F) # {} =>
                        LET last == CHOOSE k \in Setters(L, F) :
                                        \A j \in Setters(L, F) : j <= k
                        IN  /\ vals[L.cli][F] = Stored(L, last)
                            /\ ScanCompleted(L) => L.final[F] = Stored(L, last)
                            /\ \A c \in CallsOf(n) : calls[c].fields[F] = Stored(L, last)

\* cat --count 5 -c 9: Count is 9 when Func runs.
C30_Witness ==
    /\ result.state = "exited"
    /\ Len(levels) = 2
    /\ levels[2].cli = "cat"
    /\ levels[2].args = <<"--count", "5", "-c", "9">>
    /\ levels[2].called = 1
    /\ vals["cat"]["Count"] = IntValue(9)
    /\ \A c \in CallsOf(2) : calls[c].fields["Count"] = IntValue(9)


(***************************************************************************)
(* C31                                                                     *)
(***************************************************************************)
\* The call ran a subcommand.
Dispatched(L) == \E k \in EventIds(L) : L.events[k].what = "dispatch"

\* The plain tokens the loop of the call appended to remainingArgs.
PlainTokens(L) ==
    {L.events[k].token : k \in {j \in EventIds(L) : L.events[j].what = "positional"}}

\* The calls above the n-th, from its caller to the top.
RECURSIVE CallersOf(_)
CallersOf(n) ==
    IF levels[n].parent = 0 THEN {}
    ELSE {levels[n].parent} \cup CallersOf(levels[n].parent)

\* C31: a call that ran a subcommand leaves the Args of its command as they
\* were when it was entered: the plain tokens it met before the name of the
\* subcommand stay in remainingArgs and are never stored, so a Func that
\* runs below it and reads Args through Parent finds none of them.
C31_ArgsUntouched ==
    /\ \A n \in LevelIds :
           Dispatched(levels[n]) =>
               /\ argsField[levels[n].cli] = levels[n].entryArgs
               /\ levels[n].entryArgs = <<>>
    /\ \A c \in 1..Len(calls) : \A p \in CallersOf(calls[c].level) :
           /\ levels[calls[c].level].mode = "dispatch" => Dispatched(levels[p])
           /\ Dispatched(levels[p]) =>
                  \A t \in PlainTokens(levels[p]) :
                      \A k \in 1..Len(argsField[levels[p].cli]) :
                          argsField[levels[p].cli][k] # t

\* root f cat f: root met f before cat and kept it out of its Args, which
\* cat, run with root as its Parent and f in its own Args, found empty.
C31_Witness ==
    /\ result.state = "exited"
    /\ levels[1].cli = "root"
    /\ levels[1].args = <<"f", "cat", "f">>
    /\ levels[1].remainingArgs = <<"f">>
    /\ Len(levels) = 2
    /\ levels[2].called = 1
    /\ parentField["cat"] = "root"
    /\ argsField[parentField["cat"]] = <<>>
    /\ Len(calls) = 1
    /\ calls[1].Args = <<"f">>


(***************************************************************************)
(* C32                                                                     *)
(***************************************************************************)
\* The calls made by Run and by addArg: the top one and those below it for
\* the subcommands named on the command line.
DispatchChain == {n \in LevelIds : levels[n].mode \in {"top", "dispatch"}}

\* The last of them: the one that has run no subcommand of its own.
Deepest == CHOOSE n \in DispatchChain : \A m \in DispatchChain : m <= n

\* C32: in one run at most one Func is called, once, and it is that of the
\* last call made for a subcommand named on the command line, or of the top
\* call when none was named; the Func of a call that ran a subcommand is not
\* called, and such a call, once the subcommand has returned, returns the
\* same code and has shown no help of its own.
C32_OneHandler ==
    /\ Len(calls) <= 1
    /\ \A c \in 1..Len(calls) :
           /\ calls[c].level = Deepest
           /\ ~Dispatched(levels[Deepest])
           /\ levels[Deepest].called = 1
           /\ calls[c].cli = levels[Deepest].cli
    /\ \A n \in LevelIds : levels[n].called = Cardinality(CallsOf(n))
    /\ \A n \in DispatchChain :
           /\ n # Deepest <=> Dispatched(levels[n])
           /\ Dispatched(levels[n]) =>
                  /\ levels[n].called = 0
                  /\ levels[n].helped = 0
                  /\ HelpsShown(levels[n].name) = 0
                  /\ \E m \in DispatchChain :
                         /\ levels[m].parent = n
                         /\ levels[n].pc = "returned" =>
                                /\ levels[m].pc = "returned"
                                /\ levels[n].code = levels[m].code
                                /\ levels[n].via = "dispatch"
    /\ result.state = "exited" => result.code = levels[Deepest].code

\* suite version only: only's Func ran and returned 2, version and suite
\* ran none and showed no help, and the run exited with 2.
C32_Witness ==
    /\ result = [state |-> "exited", code |-> 2]
    /\ levels[1].cli = "suite"
    /\ levels[1].args = <<"version", "only">>
    /\ Len(levels) = 3
    /\ Len(calls) = 1
    /\ calls[1].cli = "only"
    /\ calls[1].code = 2
    /\ levels[1].called = 0 /\ levels[2].called = 0
    /\ stdout = <<>>

====
